---------------------------- MODULE Spec2Model ----------------------------
(***************************************************************************)
(* A model of the entity pool of abagames-util (src/src/pool.rs).          *)
(*                                                                         *)
(* A Pool<T> owns two vectors: `pool` (the unused objects) and `in_use`.   *)
(* An object is modelled as a record [id, val]: `id` is the index at which *)
(* the constructor built it (the object's identity, which the code never   *)
(* sees), `val` is the value of type T it holds.  Vectors are sequences;   *)
(* the code's 0-based index idx is position idx + 1 of the sequence.       *)
(***************************************************************************)
EXTENDS Integers, Sequences, FiniteSets, TLC

\* Largest capacity a pool is constructed with.
MaxCap == 3

\* The values of T the tests of pool.rs use: the one their constructor gives
\* every object, and the one they store through a handle.
CtorVal == 0
WrittenVal == 1
Vals == {CtorVal, WrittenVal}
Keep == "Keep"
Remove == "Remove"
PoolRemoval == {Keep, Remove}
\* A callback that leaves the object it is given as it is.
NoWrite == -1

VARIABLES
    pool,       \* Pool::pool, the unused objects
    in_use,     \* Pool::in_use, the in-use objects
    panic,      \* "none", or the assertion that ended the program
    handle,     \* the live &mut T a get/get_force returned: its position in
                \* in_use, 0 when there is none (None, or the borrow has ended)
    cap,        \* history: the size the constructor was called with
    op,         \* history: the last Pool function called, "write" after a
                \* store through the handle
    visited,    \* history: the callback invocations of the last run/run_ref/
                \* expire, in order: [idx, id, status, rest]
    yielded,    \* history: the ids the last iter / iter_mut / iter_all /
                \* iter_all_mut yielded, in order
    allocOrder, \* history, kept under SpecOrder only: the ids in use, by
                \* their latest move out of `pool` (oldest first)
    written,    \* history: per id, the value caller code gave it last
    since,      \* history: "new" / "new_indexed" / "clear" while only get calls
                \* (and stores through their handles) followed that call,
                \* else "other"
    nget        \* history: the number of those get calls

poolVars == <<pool, in_use, panic, handle, cap, op, visited, yielded,
              allocOrder, written, since, nget>>

\* MainLoop::run (src/src/sdl/mainloop.rs).  Times are in milliseconds; an f32
\* is modelled in fixed point, as a whole number of 1/Scale.
VARIABLES
    pc,         \* where MainLoop::run is: "start", "init", "poll",
                \* "handle_event", "ticks", "step", "draw", "quit", "returned",
                \* or "off" when no main loop runs
    result,     \* what run returned: "Ok", an ErrorKind, "overflow" (the u32
                \* subtraction of the delay went below 0), "running" before
    events,     \* the event queue behind the EventPump
    clock,      \* the value timer.ticks() would return now
    prev_tick,  \* run's prev_tick
    interval,   \* run's interval
    is_done,    \* run's is_done
    frames,     \* run's frames: the steps scheduled for this real frame
    results,    \* the step results collected so far in this real frame
    slowdown,   \* run's slowdown, once the results are folded
    calls,      \* history: how often each Game function was invoked, for init
                \* and quit since the start, for the others in this real frame
    failed,     \* history: the Game function that returned an error
    frameNo,    \* history: the real frames started
    polled,     \* history: what poll_event returned in this real frame
    handled,    \* history: what handle_event returned in this real frame
    elapsed,    \* history: now_tick - prev_tick when this frame read the timer
    frame       \* history: run's frame, as computed in this real frame

loopVars == <<pc, result, events, clock, prev_tick, interval, is_done, frames,
              results, slowdown, calls, failed, frameNo, polled, handled,
              elapsed, frame>>

\* A call of one of the free functions of math.rs or of a method of Rand: the
\* function, its arguments, what it returned, and whether the build checks
\* integer overflow (debug-assertions) or wraps (release).
VARIABLE calc

\* Audio (src/src/audio.rs): the music of an Audio and the thread that plays
\* it.
VARIABLE audio

\* A parallel iteration over a Pool (src/src/pool.rs): the ranges of objects
\* that wait for a worker or are with one.
VARIABLE par

vars == <<poolVars, loopVars, calc, audio, par>>

----------------------------------------------------------------------------
(* Vec helpers *)

Last(s) == s[Len(s)]
Front(s) == SubSeq(s, 1, Len(s) - 1)
Ids(s) == {s[i].id : i \in 1..Len(s)}
IdSeq(s) == [i \in 1..Len(s) |-> s[i].id]

\* Vec::swap_remove(idx): the last object takes the place of the removed one.
\* (mutant: the object handed back is the last one, not the removed one)
swap_remove_wrong(s, idx) ==
    [vec |-> IF idx + 1 = Len(s) THEN Front(s)
             ELSE [Front(s) EXCEPT ![idx + 1] = Last(s)],
     item |-> Last(s)]
swap_remove(s, idx) ==
    [vec |-> IF idx + 1 = Len(s) THEN Front(s)
             ELSE [Front(s) EXCEPT ![idx + 1] = Last(s)],
     item |-> s[idx + 1]]

----------------------------------------------------------------------------
(* The constructors.  An Option<T> is a sequence of length at most 1. *)

\* (mutant: no assert_ne!(size, 0))
new_unchecked(size, ctor) ==
    [panic |-> "none",
     pool |-> [i \in 1..size |-> [id |-> i - 1, val |-> ctor]],
     in_use |-> <<>>]
\* (mutant: one object too few is built)
new_short(size, ctor) ==
    IF size = 0
    THEN [panic |-> "assert_ne", pool |-> <<>>, in_use |-> <<>>]
    ELSE [panic |-> "none",
          pool |-> [i \in 1..(size - 1) |-> [id |-> i - 1, val |-> ctor]],
          in_use |-> <<>>]
\* Pool::new(size, ctor): ctor() is the value every object starts with.
new(size, ctor) ==
    IF size = 0
    THEN [panic |-> "assert_ne", pool |-> <<>>, in_use |-> <<>>]
    ELSE [panic |-> "none",
          pool |-> [i \in 1..size |-> [id |-> i - 1, val |-> ctor]],
          in_use |-> <<>>]

\* Pool::new_indexed(size, ctor): object i starts with ctor(i).
new_indexed(size, ctor) ==
    IF size = 0
    THEN [panic |-> "assert_ne", pool |-> <<>>, in_use |-> <<>>]
    ELSE [panic |-> "none",
          pool |-> [i \in 1..size |-> [id |-> i - 1, val |-> ctor[i - 1]]],
          in_use |-> <<>>]

----------------------------------------------------------------------------
(* get, get_force, clear *)

\* (mutant: the first object of `pool` is taken, not the last)
pop_front(free) ==
    IF free = <<>> THEN [item |-> <<>>, pool |-> free]
    ELSE [item |-> <<Head(free)>>, pool |-> Tail(free)]
\* (mutant: the last object is read but stays in `pool`)
pop_peek(free) ==
    IF free = <<>> THEN [item |-> <<>>, pool |-> free]
    ELSE [item |-> <<Last(free)>>, pool |-> free]
\* Pool::pop: Vec::pop of `pool`.
pop(free) ==
    IF free = <<>> THEN [item |-> <<>>, pool |-> free]
    ELSE [item |-> <<Last(free)>>, pool |-> Front(free)]

\* (mutant: the object is reset to the constructor's value when handed out)
get_default(free, inu) ==
    LET p == pop(free) IN
    IF p.item # <<>>
    THEN [pool |-> p.pool,
          in_use |-> Append(inu, [p.item[1] EXCEPT !.val = CtorVal]),
          handle |-> Len(inu) + 1, panic |-> "none"]
    ELSE [pool |-> p.pool, in_use |-> inu, handle |-> 0, panic |-> "none"]
\* Pool::get.  `handle` is the position of the returned object, 0 for None.
get(free, inu) ==
    LET p == pop(free) IN
    IF p.item # <<>>
    THEN [pool |-> p.pool, in_use |-> Append(inu, p.item[1]),
          handle |-> Len(inu) + 1, panic |-> "none"]
    ELSE [pool |-> p.pool, in_use |-> inu, handle |-> 0, panic |-> "none"]

\* (mutant: on a saturated pool the first object in use is moved to the end
\* and handed out from there)
get_force_rotate(free, inu) ==
    LET p == pop(free) IN
    IF p.item # <<>>
    THEN [pool |-> p.pool, in_use |-> Append(inu, p.item[1]),
          handle |-> Len(inu) + 1, panic |-> "none"]
    ELSE IF inu # <<>>
    THEN [pool |-> p.pool, in_use |-> Append(Tail(inu), Head(inu)),
          handle |-> Len(inu), panic |-> "none"]
    ELSE [pool |-> p.pool, in_use |-> inu, handle |-> 0, panic |-> "expect"]
\* Pool::get_force.
get_force(free, inu) ==
    LET p == pop(free) IN
    IF p.item # <<>>
    THEN [pool |-> p.pool, in_use |-> Append(inu, p.item[1]),
          handle |-> Len(inu) + 1, panic |-> "none"]
    ELSE IF inu # <<>>
    THEN [pool |-> p.pool, in_use |-> inu, handle |-> 1, panic |-> "none"]
    ELSE [pool |-> p.pool, in_use |-> inu, handle |-> 0, panic |-> "expect"]

\* (mutant: in_use is emptied and its objects are dropped)
clear_drop(free, inu) == [pool |-> free, in_use |-> <<>>]
\* (mutant: `pool` is replaced by the drained objects instead of extended)
clear_assign(free, inu) == [pool |-> inu, in_use |-> <<>>]
\* (mutant: the drained objects are rebuilt with the constructor's value)
clear_reset(free, inu) ==
    [pool |-> free \o [i \in 1..Len(inu) |-> [inu[i] EXCEPT !.val = CtorVal]],
     in_use |-> <<>>]
\* Pool::clear: pool.extend(in_use.drain(..)).
clear(free, inu) == [pool |-> free \o inu, in_use |-> <<>>]

----------------------------------------------------------------------------
(* The iterators, each given by the objects it yields, in order. *)

\* Pool::iter and Pool::iter_mut: in_use.iter() / in_use.iter_mut().
iter(free, inu) == inu

\* (mutant: the unused objects are chained first)
iter_all_free_first(free, inu) == free \o inu
\* Pool::iter_all and Pool::iter_all_mut: in_use chained with pool.
iter_all(free, inu) == inu \o free

----------------------------------------------------------------------------
(* run, run_ref, expire.  A callback is given by `f`, its answer for each  *)
(* object, and `w`, the value it stores in the object it is handed (NoWrite *)
(* when it stores nothing).  Each loop is the code's while loop, with the   *)
(* callback invocations collected in `vis`.                                 *)

callback_write(e, w) == IF w = NoWrite THEN e ELSE [e EXCEPT !.val = w]

RECURSIVE run_loop(_, _, _, _, _, _)
run_loop(free, inu, idx, vis, f, w) ==
    IF ~(idx < Len(inu))
    THEN [pool |-> free, in_use |-> inu, visited |-> vis, idx |-> idx]
    ELSE LET item == callback_write(inu[idx + 1], w)
             status == f[item.id]
             inu1 == [inu EXCEPT ![idx + 1] = item]
             vis1 == Append(vis, [idx |-> idx, id |-> item.id,
                                  status |-> status, rest |-> <<>>])
         IN  IF status = Remove
             THEN LET r == swap_remove(inu1, idx)
                  IN  run_loop(Append(free, r.item), r.vec, idx, vis1, f, w)
             ELSE run_loop(free, inu1, idx + 1, vis1, f, w)

\* (mutant: the index advances after every callback, Remove included)
RECURSIVE run_loop_naive(_, _, _, _, _, _)
run_loop_naive(free, inu, idx, vis, f, w) ==
    IF ~(idx < Len(inu))
    THEN [pool |-> free, in_use |-> inu, visited |-> vis, idx |-> idx]
    ELSE LET item == callback_write(inu[idx + 1], w)
             status == f[item.id]
             inu1 == [inu EXCEPT ![idx + 1] = item]
             vis1 == Append(vis, [idx |-> idx, id |-> item.id,
                                  status |-> status, rest |-> <<>>])
         IN  IF status = Remove
             THEN LET r == swap_remove(inu1, idx)
                  IN  run_loop_naive(Append(free, r.item), r.vec, idx + 1, vis1,
                                     f, w)
             ELSE run_loop_naive(free, inu1, idx + 1, vis1, f, w)
run_naive(free, inu, f, w) == run_loop_naive(free, inu, 0, <<>>, f, w)
\* (mutant: a removal closes the gap by shifting, as Vec::remove does)
RECURSIVE run_loop_shift(_, _, _, _, _, _)
run_loop_shift(free, inu, idx, vis, f, w) ==
    IF ~(idx < Len(inu))
    THEN [pool |-> free, in_use |-> inu, visited |-> vis, idx |-> idx]
    ELSE LET item == callback_write(inu[idx + 1], w)
             status == f[item.id]
             inu1 == [inu EXCEPT ![idx + 1] = item]
             vis1 == Append(vis, [idx |-> idx, id |-> item.id,
                                  status |-> status, rest |-> <<>>])
         IN  IF status = Remove
             THEN run_loop_shift(Append(free, item),
                                 SubSeq(inu1, 1, idx) \o
                                     SubSeq(inu1, idx + 2, Len(inu1)),
                                 idx, vis1, f, w)
             ELSE run_loop_shift(free, inu1, idx + 1, vis1, f, w)
run_shift(free, inu, f, w) == run_loop_shift(free, inu, 0, <<>>, f, w)
\* Pool::run(func).
run(free, inu, f, w) == run_loop(free, inu, 0, <<>>, f, w)

RECURSIVE run_ref_loop(_, _, _, _, _, _)
run_ref_loop(free, inu, idx, vis, f, w) ==
    IF ~(idx < Len(inu))
    THEN [pool |-> free, in_use |-> inu, visited |-> vis, idx |-> idx]
    ELSE LET left == SubSeq(inu, 1, idx)
             right0 == SubSeq(inu, idx + 1, Len(inu))
             item == callback_write(Head(right0), w)
             right == Tail(right0)
             status == f[item.id]
             inu1 == [inu EXCEPT ![idx + 1] = item]
             vis1 == Append(vis, [idx |-> idx, id |-> item.id,
                                  status |-> status,
                                  rest |-> IdSeq(left \o right)])
         IN  IF status = Remove
             THEN LET r == swap_remove(inu1, idx)
                  IN  run_ref_loop(Append(free, r.item), r.vec, idx, vis1, f, w)
             ELSE run_ref_loop(free, inu1, idx + 1, vis1, f, w)

\* (mutant: the iterator handed to the callback only has the objects after
\* the visited one)
RECURSIVE run_ref_loop_right(_, _, _, _, _, _)
run_ref_loop_right(free, inu, idx, vis, f, w) ==
    IF ~(idx < Len(inu))
    THEN [pool |-> free, in_use |-> inu, visited |-> vis, idx |-> idx]
    ELSE LET right0 == SubSeq(inu, idx + 1, Len(inu))
             item == callback_write(Head(right0), w)
             right == Tail(right0)
             status == f[item.id]
             inu1 == [inu EXCEPT ![idx + 1] = item]
             vis1 == Append(vis, [idx |-> idx, id |-> item.id,
                                  status |-> status, rest |-> IdSeq(right)])
         IN  IF status = Remove
             THEN LET r == swap_remove(inu1, idx)
                  IN  run_ref_loop_right(Append(free, r.item), r.vec, idx, vis1,
                                         f, w)
             ELSE run_ref_loop_right(free, inu1, idx + 1, vis1, f, w)
run_ref_right(free, inu, f, w) == run_ref_loop_right(free, inu, 0, <<>>, f, w)
\* (mutant: the scan ends at the first removal)
RECURSIVE run_ref_loop_stop(_, _, _, _, _, _)
run_ref_loop_stop(free, inu, idx, vis, f, w) ==
    IF ~(idx < Len(inu))
    THEN [pool |-> free, in_use |-> inu, visited |-> vis, idx |-> idx]
    ELSE LET left == SubSeq(inu, 1, idx)
             right0 == SubSeq(inu, idx + 1, Len(inu))
             item == callback_write(Head(right0), w)
             right == Tail(right0)
             status == f[item.id]
             inu1 == [inu EXCEPT ![idx + 1] = item]
             vis1 == Append(vis, [idx |-> idx, id |-> item.id,
                                  status |-> status,
                                  rest |-> IdSeq(left \o right)])
         IN  IF status = Remove
             THEN LET r == swap_remove(inu1, idx)
                  IN  [pool |-> Append(free, r.item), in_use |-> r.vec,
                       visited |-> vis1, idx |-> idx]
             ELSE run_ref_loop_stop(free, inu1, idx + 1, vis1, f, w)
run_ref_stop(free, inu, f, w) == run_ref_loop_stop(free, inu, 0, <<>>, f, w)
\* Pool::run_ref(func).
run_ref(free, inu, f, w) == run_ref_loop(free, inu, 0, <<>>, f, w)

RECURSIVE expire_loop(_, _, _, _, _)
expire_loop(free, inu, idx, vis, f) ==
    IF ~(idx < Len(inu))
    THEN [pool |-> free, in_use |-> inu, visited |-> vis, idx |-> idx]
    ELSE LET status == f[inu[idx + 1].id]
             vis1 == Append(vis, [idx |-> idx, id |-> inu[idx + 1].id,
                                  status |-> status, rest |-> <<>>])
         IN  IF status = Remove
             THEN LET r == swap_remove(inu, idx)
                  IN  expire_loop(Append(free, r.item), r.vec, idx, vis1, f)
             ELSE expire_loop(free, inu, idx + 1, vis1, f)

\* (mutant: the index advances after a removal too)
RECURSIVE expire_loop_naive(_, _, _, _, _)
expire_loop_naive(free, inu, idx, vis, f) ==
    IF ~(idx < Len(inu))
    THEN [pool |-> free, in_use |-> inu, visited |-> vis, idx |-> idx]
    ELSE LET status == f[inu[idx + 1].id]
             vis1 == Append(vis, [idx |-> idx, id |-> inu[idx + 1].id,
                                  status |-> status, rest |-> <<>>])
         IN  IF status = Remove
             THEN LET r == swap_remove(inu, idx)
                  IN  expire_loop_naive(Append(free, r.item), r.vec, idx + 1,
                                        vis1, f)
             ELSE expire_loop_naive(free, inu, idx + 1, vis1, f)
expire_naive(free, inu, f) == expire_loop_naive(free, inu, 0, <<>>, f)
\* Pool::expire(pred).
expire(free, inu, f) == expire_loop(free, inu, 0, <<>>, f)

----------------------------------------------------------------------------
(* The state machine: a program that constructs one pool and then calls its *)
(* functions in any order, writing through the handles it is given.         *)

Constructed(p, size, name, ctorVals) ==
    /\ pool = p.pool
    /\ in_use = p.in_use
    /\ panic = p.panic
    /\ handle = 0
    /\ cap = size
    /\ op = name
    /\ visited = <<>>
    /\ yielded = <<>>
    /\ allocOrder = <<>>
    /\ written = ctorVals
    /\ since = name
    /\ nget = 0

\* No main loop runs beside the pool.
\* No function of math.rs or rand.rs is being called.
NoCalc == [fn |-> "none", args |-> <<>>, checks |-> FALSE, panic |-> FALSE,
           wrapped |-> FALSE, val |-> 0]
CalcOff == calc = NoCalc
\* No Audio has been made.
NoAudio == [music_enabled |-> FALSE, music_sink |-> "none", fade_time |-> 0,
            factor |-> 0, pc |-> "off", fade |-> 0, stale |-> FALSE,
            faded |-> "no"]
AudioOff == audio = NoAudio
\* No parallel iteration is under way.
NoPar == [name |-> "none", w |-> NoWrite, jobs |-> {}, done |-> {}, times |-> <<>>]
ParOff == par = NoPar

LoopOff ==
    /\ pc = "off"
    /\ result = "running"
    /\ events = <<>>
    /\ clock = 0
    /\ prev_tick = 0
    /\ interval = 0
    /\ is_done = FALSE
    /\ frames = 0
    /\ results = <<>>
    /\ slowdown = 0
    /\ calls = <<>>
    /\ failed = "none"
    /\ frameNo = 0
    /\ polled = "-"
    /\ handled = "-"
    /\ elapsed = 0
    /\ frame = 0

Init ==
    /\ LoopOff
    /\ CalcOff
    /\ AudioOff
    /\ ParOff
    /\ \E size \in 0..MaxCap :
          \/ \E c \in Vals :
                Constructed(new(size, c), size, "new",
                            [i \in 0..(size - 1) |-> c])
          \/ \E c \in [0..(size - 1) -> Vals] :
                Constructed(new_indexed(size, c), size, "new_indexed", c)

Alive == panic = "none"

Get ==
    /\ Alive
    /\ LET r == get(pool, in_use) IN
       /\ pool' = r.pool
       /\ in_use' = r.in_use
       /\ handle' = r.handle
       /\ panic' = r.panic
    /\ op' = "get"
    /\ visited' = <<>>
    /\ yielded' = <<>>
    /\ nget' = IF since # "other" /\ nget <= cap THEN nget + 1 ELSE 0
    /\ since' = IF nget <= cap THEN since ELSE "other"
    /\ UNCHANGED <<cap, written>>

GetForce ==
    /\ Alive
    /\ LET r == get_force(pool, in_use) IN
       /\ pool' = r.pool
       /\ in_use' = r.in_use
       /\ handle' = r.handle
       /\ panic' = r.panic
    /\ op' = "get_force"
    /\ visited' = <<>>
    /\ yielded' = <<>>
    /\ since' = "other"
    /\ nget' = 0
    /\ UNCHANGED <<cap, written>>

\* Caller code stores v through the handle of the last get / get_force.
Write(v) ==
    /\ Alive
    /\ handle # 0
    /\ in_use' = [in_use EXCEPT ![handle].val = v]
    /\ written' = [written EXCEPT ![in_use[handle].id] = v]
    /\ op' = "write"
    /\ UNCHANGED <<pool, panic, handle, cap, visited, yielded, since, nget>>

Clear ==
    /\ Alive
    /\ LET r == clear(pool, in_use) IN
       /\ pool' = r.pool
       /\ in_use' = r.in_use
    /\ handle' = 0
    /\ op' = "clear"
    /\ visited' = <<>>
    /\ yielded' = <<>>
    /\ since' = "clear"
    /\ nget' = 0
    /\ UNCHANGED <<panic, cap, written>>

\* What a scan leaves behind, r being the result of its loop.
Scanned(r, name, w) ==
    /\ pool' = r.pool
    /\ in_use' = r.in_use
    /\ visited' = r.visited
    /\ yielded' = <<>>
    /\ handle' = 0
    /\ op' = name
    /\ written' = [i \in DOMAIN written |->
                     IF w # NoWrite /\ i \in Ids(in_use) THEN w ELSE written[i]]
    /\ since' = "other"
    /\ nget' = 0
    /\ UNCHANGED <<panic, cap>>

Run ==
    /\ Alive
    /\ \E f \in [Ids(in_use) -> PoolRemoval], w \in Vals \cup {NoWrite} :
          Scanned(run(pool, in_use, f, w), "run", w)

RunRef ==
    /\ Alive
    /\ \E f \in [Ids(in_use) -> PoolRemoval], w \in Vals \cup {NoWrite} :
          Scanned(run_ref(pool, in_use, f, w), "run_ref", w)

Expire ==
    /\ Alive
    /\ \E f \in [Ids(in_use) -> PoolRemoval] :
          Scanned(expire(pool, in_use, f), "expire", NoWrite)

\* What a traversal of iterator `it` leaves behind: the caller has read every
\* object it yields, and through a mutable iterator has stored w in each
\* (NoWrite: it has stored nothing).
Iterated(it, name, w) ==
    /\ yielded' = IdSeq(it)
    /\ pool' = [i \in 1..Len(pool) |->
                  IF pool[i].id \in Ids(it) THEN callback_write(pool[i], w)
                  ELSE pool[i]]
    /\ in_use' = [i \in 1..Len(in_use) |->
                    IF in_use[i].id \in Ids(it) THEN callback_write(in_use[i], w)
                    ELSE in_use[i]]
    /\ written' = [i \in DOMAIN written |->
                     IF w # NoWrite /\ i \in Ids(it) THEN w ELSE written[i]]
    /\ op' = name
    /\ visited' = <<>>
    /\ handle' = 0
    /\ since' = "other"
    /\ nget' = 0
    /\ UNCHANGED <<panic, cap>>

Iter == Alive /\ Iterated(iter(pool, in_use), "iter", NoWrite)

IterMut ==
    /\ Alive
    /\ \E w \in Vals \cup {NoWrite} : Iterated(iter(pool, in_use), "iter_mut", w)

IterAll == Alive /\ Iterated(iter_all(pool, in_use), "iter_all", NoWrite)

IterAllMut ==
    /\ Alive
    /\ \E w \in Vals \cup {NoWrite} :
          Iterated(iter_all(pool, in_use), "iter_all_mut", w)

\* Under Spec the allocation order is not recorded.
Next ==
    \/ Get /\ UNCHANGED <<allocOrder, loopVars, calc, audio, par>>
    \/ GetForce /\ UNCHANGED <<allocOrder, loopVars, calc, audio, par>>
    \/ (\E v \in Vals : Write(v)) /\ UNCHANGED <<allocOrder, loopVars, calc, audio, par>>
    \/ Clear /\ UNCHANGED <<allocOrder, loopVars, calc, audio, par>>
    \/ Run /\ UNCHANGED <<allocOrder, loopVars, calc, audio, par>>
    \/ RunRef /\ UNCHANGED <<allocOrder, loopVars, calc, audio, par>>
    \/ Expire /\ UNCHANGED <<allocOrder, loopVars, calc, audio, par>>
    \/ Iter /\ UNCHANGED <<allocOrder, loopVars, calc, audio, par>>
    \/ IterMut /\ UNCHANGED <<allocOrder, loopVars, calc, audio, par>>
    \/ IterAll /\ UNCHANGED <<allocOrder, loopVars, calc, audio, par>>
    \/ IterAllMut /\ UNCHANGED <<allocOrder, loopVars, calc, audio, par>>

Spec == Init /\ [][Next]_vars

\* The allocation order after a step: the objects that went back to `pool`
\* leave it, the object that came out of `pool` (if any) is the newest.
OrderAfter(order, before, after) ==
    LET kept == SelectSeq(order, LAMBDA i : i \in Ids(after))
        fresh == SelectSeq(IdSeq(after), LAMBDA i : i \notin Ids(before))
    IN  kept \o fresh

Ordered ==
    /\ allocOrder' = OrderAfter(allocOrder, in_use, in_use')
    /\ UNCHANGED <<loopVars, calc, audio, par>>

NextOrder ==
    \/ Get /\ Ordered
    \/ GetForce /\ Ordered
    \/ (\E v \in Vals : Write(v)) /\ Ordered
    \/ Clear /\ Ordered
    \/ Run /\ Ordered
    \/ RunRef /\ Ordered
    \/ Expire /\ Ordered
    \/ Iter /\ Ordered
    \/ IterMut /\ Ordered
    \/ IterAll /\ Ordered
    \/ IterAllMut /\ Ordered

SpecOrder == Init /\ [][NextOrder]_vars

----------------------------------------------------------------------------
(* Properties of the pool *)

Fresh == since \in {"new", "new_indexed"}
Objects(s) == {s[i] : i \in 1..Len(s)}
RemovedIds(vis) == {vis[i].id : i \in {j \in 1..Len(vis) : vis[j].status = Remove}}
KeptIds(vis) == {vis[i].id : i \in {j \in 1..Len(vis) : vis[j].status = Keep}}

\* C1: a pool constructed with capacity n > 0 holds n objects after any
\* sequence of get, get_force, clear, run, run_ref and expire calls:
\* Len(pool) + Len(in_use) = n.
C1_CapacityFixed == cap > 0 => Len(pool) + Len(in_use) = cap

\* A scan has moved some objects back and kept others.
C1_Witness ==
    /\ op \in {"run", "run_ref", "expire"}
    /\ RemovedIds(visited) # {}
    /\ KeptIds(visited) # {}
    /\ pool # <<>> /\ in_use # <<>>

\* C2: every object the constructor built is in exactly one of pool / in_use,
\* exactly once, and no other object is.
C2_Partition ==
    LET all == IdSeq(pool \o in_use) IN
    cap > 0 =>
        /\ {all[i] : i \in 1..Len(all)} = 0..(cap - 1)
        /\ \A i, j \in 1..Len(all) : i # j => all[i] # all[j]

\* run_ref sent a non-last object back to pool, so that another took its place.
C2_Witness ==
    /\ op = "run_ref"
    /\ \E i \in 1..Len(visited) :
          visited[i].status = Remove /\ Len(visited[i].rest) > visited[i].idx
    /\ in_use # <<>>

\* C3: on a freshly constructed pool of capacity n the k-th get, k <= n,
\* returns an object (the k-th of in_use, all k of them distinct) and the
\* (n+1)-th returns None; a get that returns None changes neither vector.
C3_FreshGets ==
    [][/\ (Fresh /\ nget \in 1..cap)' =>
              (/\ handle = nget
               /\ Len(in_use) = nget
               /\ Cardinality(Ids(in_use)) = nget)'
       /\ (Fresh /\ nget = cap + 1)' => handle' = 0
       /\ (op' = "get" /\ handle' = 0) => (pool' = pool /\ in_use' = in_use)
      ]_vars

\* The (n+1)-th get of a fresh pool of capacity n >= 2 returned None.
C3_Witness == Fresh /\ cap >= 2 /\ nget = cap + 1 /\ op = "get" /\ handle = 0

\* C4: get_force never fails: its expectation holds, it returns a handle to an
\* object in use, and while pool is not empty it does what get does (the last
\* object of pool becomes the last of in_use and is the one returned).
C4_GetForceNeverFails ==
    [][op' = "get_force" =>
          /\ panic' = "none"
          /\ handle' \in 1..Len(in_use')
          /\ pool # <<>> =>
                /\ pool' = Front(pool)
                /\ in_use' = Append(in_use, Last(pool))
                /\ handle' = Len(in_use')
      ]_vars

\* get_force was called on a saturated pool of capacity >= 2 and returned the
\* first object in use.
C4_Witness ==
    /\ op = "get_force" /\ pool = <<>> /\ handle = 1 /\ cap >= 2
    /\ panic = "none"

\* C5: on a saturated pool get_force returns the oldest surviving allocation:
\* the object in use whose latest move out of pool is the earliest.
C5_OldestSurvivor ==
    [][(op' = "get_force" /\ pool = <<>> /\ in_use # <<>>) =>
          in_use'[handle'].id = Head(allocOrder)]_vars

\* C6: run visits every object in use at its start exactly once, keeps in
\* in_use exactly those answered Keep, and moves the |S| answered Remove to
\* pool: Len(in_use) falls and Len(pool) rises by |S|.
C6_RunVisitsOnce ==
    [][op' = "run" =>
          LET S == RemovedIds(visited') IN
          /\ Len(visited') = Len(in_use)
          /\ {visited'[i].id : i \in 1..Len(visited')} = Ids(in_use)
          /\ Len(in_use') = Len(in_use) - Cardinality(S)
          /\ Len(pool') = Len(pool) + Cardinality(S)
          /\ Ids(in_use') = KeptIds(visited')
          /\ Ids(in_use') = Ids(in_use) \ S
      ]_vars

\* run removed an object that was not the last, visited the object swapped
\* into its slot, and kept at least one.
C6_Witness ==
    /\ op = "run"
    /\ \E i \in 1..(Len(visited) - 1) :
          /\ visited[i].status = Remove
          /\ visited[i + 1].idx = visited[i].idx
    /\ in_use # <<>>

\* C7: clear empties in_use and leaves all n objects in pool with the values
\* they had; the next n get calls then succeed and the (n+1)-th returns None.
C7_Clear ==
    [][/\ op' = "clear" =>
              /\ in_use' = <<>>
              /\ Len(pool') = cap
              /\ Objects(pool') = Objects(pool) \cup Objects(in_use)
       /\ (since = "clear" /\ nget \in 1..cap)' => handle' = nget'
       /\ (since = "clear" /\ nget = cap + 1)' => handle' = 0
      ]_vars

\* After allocations, a removal and a clear, n gets succeeded and one more
\* returned None.
C7_Witness ==
    /\ since = "clear" /\ nget = cap + 1 /\ handle = 0 /\ cap >= 2
    /\ IdSeq(in_use) # [i \in 1..cap |-> cap - i]

\* C8: a constructor called with capacity 0 panics and builds no pool; with a
\* capacity > 0 it does not panic.
C8_ZeroCapacityPanics ==
    /\ cap = 0 => (panic = "assert_ne" /\ pool = <<>> /\ in_use = <<>>)
    /\ cap > 0 => panic # "assert_ne"

C8_Witness == cap = 0 /\ panic = "assert_ne" /\ op = "new"

\* C9: a pool freshly constructed with capacity n > 0, by either constructor,
\* has n objects in pool and none in use.
C9_FreshPool ==
    (op \in {"new", "new_indexed"} /\ cap > 0) =>
        (Len(pool) = cap /\ Len(in_use) = 0)

C9_Witness == op = "new" /\ cap = MaxCap /\ panic = "none"

\* C10: the pool never changes the value of an object: every object, in pool
\* or in use (so also the one behind the handle of get or get_force), holds
\* the value caller code gave it last (the constructor's, a store through a
\* handle, a store of a run / run_ref callback).
C10_ValuesKept ==
    \A e \in Objects(pool) \cup Objects(in_use) : e.val = written[e.id]

\* After Pool::new (every object built alike) a store through a handle is seen
\* in in_use beside an object that still has the other value.
C10_Witness ==
    /\ since = "new" /\ op = "get" /\ Len(in_use) >= 2
    /\ \E i, j \in 1..Len(in_use) : in_use[i].val # in_use[j].val

\* C11: iter and iter_mut yield exactly the objects in use, in the order of
\* in_use; iter_all and iter_all_mut yield those and then the objects of pool,
\* n in all; none of the four changes which objects pool and in_use hold, or
\* their order.
C11_Iterators ==
    [][/\ op' \in {"iter", "iter_mut"} => yielded' = IdSeq(in_use)
       /\ op' \in {"iter_all", "iter_all_mut"} =>
              /\ yielded' = IdSeq(in_use) \o IdSeq(pool)
              /\ Len(yielded') = cap
       /\ op' \in {"iter", "iter_mut", "iter_all", "iter_all_mut"} =>
              /\ IdSeq(pool') = IdSeq(pool)
              /\ IdSeq(in_use') = IdSeq(in_use)
      ]_vars

\* iter_all_mut went over a pool with objects in use and unused objects.
C11_Witness ==
    /\ op = "iter_all_mut" /\ in_use # <<>> /\ pool # <<>>
    /\ Len(yielded) = cap

\* C12: new_indexed(n, f) builds the objects f(0), ..., f(n-1), and on the
\* fresh pool the k-th get, 1 <= k <= n, returns the one built from index n-k.
C12_IndexedOrder ==
    /\ (op = "new_indexed" /\ cap > 0) =>
          pool = [i \in 1..cap |-> [id |-> i - 1, val |-> written[i - 1]]]
    /\ (since = "new_indexed" /\ nget \in 1..cap) =>
          /\ handle = nget
          /\ \A k \in 1..nget : in_use[k].id = cap - k

\* All n >= 2 objects of a pool built by new_indexed were handed out.
C12_Witness == since = "new_indexed" /\ cap >= 2 /\ nget = cap /\ op = "get"

\* The ids in use after the first k visits of a scan that started with the
\* ids inu in use: a visit answered Remove puts the last id in the slot of the
\* visited one and drops the last slot; a visit answered Keep changes nothing.
RECURSIVE InUseAfter(_, _, _)
InUseAfter(inu, vis, k) ==
    IF k = 0 THEN inu
    ELSE LET before == InUseAfter(inu, vis, k - 1)
             slot == vis[k].idx + 1
         IN  IF vis[k].status # Remove THEN before
             ELSE [j \in 1..(Len(before) - 1) |->
                     IF j = slot THEN before[Len(before)] ELSE before[j]]
\* The ids answered Remove, in the order of the visits.
RECURSIVE RemovedSeq(_)
RemovedSeq(vis) ==
    IF vis = <<>> THEN <<>>
    ELSE IF Head(vis).status = Remove
    THEN <<Head(vis).id>> \o RemovedSeq(Tail(vis))
    ELSE RemovedSeq(Tail(vis))
\* The visits vis are those of a cursor over the ids inu that starts at 0,
\* moves on after Keep, stays after Remove (where the last id has been
\* swapped in), and stops at the end of what is left.
CursorScan(inu, vis) ==
    LET n == Len(vis) IN
    /\ n = 0 <=> inu = <<>>
    /\ n > 0 => vis[1].idx = 0
    /\ \A k \in 1..n :
          LET before == InUseAfter(inu, vis, k - 1) IN
          /\ vis[k].idx < Len(before)
          /\ vis[k].id = before[vis[k].idx + 1]
          /\ (k < n /\ vis[k].status = Keep) =>
                vis[k + 1].idx = vis[k].idx + 1
          /\ (k < n /\ vis[k].status = Remove) =>
                /\ vis[k + 1].idx = vis[k].idx
                /\ vis[k + 1].id = before[Len(before)]
                /\ vis[k].idx + 1 < Len(before)
          /\ k = n =>
                (IF vis[k].status = Keep THEN vis[k].idx + 1 ELSE vis[k].idx)
                    >= Len(InUseAfter(inu, vis, n))

\* C24: run visits in_use by a cursor from index 0 that moves to i+1 after
\* Keep at i and stays at i after Remove at i, where it finds the object that
\* was last before the removal, unless the removed object was the last; the
\* removed objects are pushed to the end of pool in the order of removal.
C24_RunCursor ==
    [][op' = "run" =>
          /\ CursorScan(IdSeq(in_use), visited')
          /\ IdSeq(in_use') = InUseAfter(IdSeq(in_use), visited', Len(visited'))
          /\ IdSeq(pool') = IdSeq(pool) \o RemovedSeq(visited')
      ]_vars
\* run removed the first of three objects and then the one swapped into its
\* slot, and kept the third.
C24_Witness ==
    /\ op = "run"
    /\ Len(visited) = 3
    /\ visited[1].status = Remove /\ visited[2].status = Remove
    /\ visited[2].idx = 0
    /\ visited[3].status = Keep
    /\ Len(in_use) = 1
    /\ Len(pool) = 2

\* C25: at every callback of run_ref, on the object at index i, the iterator
\* yields the other objects then in use, those before i and then those after
\* i: one fewer than are in use, never the visited object, never one removed
\* earlier in the pass; the traversal and the removals are those of run.
C25_RunRefOthers ==
    [][op' = "run_ref" =>
          /\ CursorScan(IdSeq(in_use), visited')
          /\ IdSeq(in_use') = InUseAfter(IdSeq(in_use), visited', Len(visited'))
          /\ IdSeq(pool') = IdSeq(pool) \o RemovedSeq(visited')
          /\ \A k \in 1..Len(visited') :
                LET before == InUseAfter(IdSeq(in_use), visited', k - 1)
                    i == visited'[k].idx
                    rest == visited'[k].rest
                    others == {rest[j] : j \in 1..Len(rest)}
                IN  /\ rest = SubSeq(before, 1, i) \o
                                  SubSeq(before, i + 2, Len(before))
                    /\ Len(rest) = Len(before) - 1
                    /\ visited'[k].id \notin others
                    /\ \A r \in 1..(k - 1) :
                          visited'[r].status = Remove =>
                              visited'[r].id \notin others
      ]_vars
\* run_ref removed the first of three objects and then visited the object
\* swapped into its slot, with the one other object still in use to look at.
C25_Witness ==
    /\ op = "run_ref"
    /\ Len(visited) = 3
    /\ visited[1].status = Remove
    /\ visited[2].idx = 0
    /\ Len(visited[1].rest) = 2
    /\ Len(visited[2].rest) = 1
    /\ visited[2].rest = <<visited[3].id>>

\* C26: expire evaluates the predicate once on each object in use at its
\* start, moves the objects answered Remove, and no other, to the end of pool
\* by the removals of run, and changes no value and no object of pool.
C26_Expire ==
    [][op' = "expire" =>
          /\ Len(visited') = Len(in_use)
          /\ {visited'[k].id : k \in 1..Len(visited')} = Ids(in_use)
          /\ CursorScan(IdSeq(in_use), visited')
          /\ IdSeq(in_use') = InUseAfter(IdSeq(in_use), visited', Len(visited'))
          /\ IdSeq(pool') = IdSeq(pool) \o RemovedSeq(visited')
          /\ SubSeq(pool', 1, Len(pool)) = pool
          /\ Objects(pool') \cup Objects(in_use') =
                 Objects(pool) \cup Objects(in_use)
      ]_vars
\* expire removed the first of three objects, one holding a written value,
\* kept another, with an object already free.
C26_Witness ==
    /\ op = "expire"
    /\ Len(visited) = 3
    /\ visited[1].status = Remove
    /\ visited[2].status = Keep
    /\ Len(pool) >= 1
    /\ Last(pool).val = WrittenVal
    /\ in_use # <<>>

----------------------------------------------------------------------------
(* MainLoop::run (src/src/sdl/mainloop.rs).                                 *)
(*                                                                          *)
(* A tick count (u32) is a natural number of milliseconds.  An f32 that is  *)
(* not a tick count (interval, a slowdown) is a whole number of 1/Scale,    *)
(* and a product or quotient of two of them is rounded down to one: the     *)
(* model does not follow f32 rounding below 1/Scale.  `as f32` of a tick    *)
(* count is modelled as it is: the nearest number with 24 significant bits. *)

\* The real frames one run may start.
MaxFrames == 2
\* The events that may wait in the queue.
MaxQueue == 2

\* An f32 x is held as the whole number x * Scale; Scale is a power of 2, so
\* that these are f32 values exactly.
Scale == 1024
INTERVAL_BASE == 16 * Scale
MAX_SKIP_FRAME == 5
NO_WAIT == FALSE
ACCELERATE_FRAME == FALSE
SLOWDOWN_START_RATIO == Scale
SLOWDOWN_MAX_RATIO == (175 * Scale) \div 100

\* StepResult: Slowdown(s) and Done.
Slowdown(x) == [done |-> FALSE, s |-> x]
Done == [done |-> TRUE, s |-> 0]

\* What Game::step returns in the model: Slowdown(0.), Slowdown(2.), Done.
StepResults == {Slowdown(0), Slowdown(2 * Scale), Done}
\* The events: the quit request and one of any other kind.
Events == {"Quit", "Key"}
\* The milliseconds that may pass between two looks at the timer.
Elapses == {0, 2, 20, 35}
\* The tick counts at which run may be called: SDL just started, or up for
\* three days (2^28 ms), where two neighbouring f32 are 32 ms apart.
StartTicks == {0, 2^28 + 15}

\* The f32 nearest to n, for 0 <= n < 2^31: n rounded to 24 significant bits,
\* a tie to the even one.  It is `n as f32` for a tick count n, and, Scale
\* being a power of 2, the rounding of an f32 operation whose exact result is
\* n / Scale.
as_f32(n) ==
    IF n < 2^24 THEN n
    ELSE LET ulp == CHOOSE u \in {2^j : j \in 1..7} : n < u * 2^24 /\ u * 2^23 <= n
             q == n \div ulp
             r == n % ulp
         IN  IF 2 * r > ulp \/ (2 * r = ulp /\ q % 2 = 1)
             THEN (q + 1) * ulp
             ELSE q * ulp

\* (mutant: a Done on the right is lost behind a Slowdown on the left)
merge_left(a, b) ==
    IF a.done THEN Done ELSE Slowdown(as_f32(a.s + b.s))
\* StepResult::merge; s1 + s2 is an addition of f32.
merge(a, b) ==
    IF a.done \/ b.done THEN Done ELSE Slowdown(as_f32(a.s + b.s))

\* Iterator::fold(init, StepResult::merge) over the collected results.
RECURSIVE fold(_, _)
fold(acc, rs) == IF rs = <<>> THEN acc ELSE fold(merge(acc, Head(rs)), Tail(rs))

\* (mutant: the first argument, whatever the second)
min_first(a, b) == a
\* f32::min.
min(a, b) == IF a < b THEN a ELSE b

\* (mutant: a slowdown of exactly SLOWDOWN_START_RATIO already slows down)
calculate_interval_ge(iv, sd) ==
    iv + IF sd >= SLOWDOWN_START_RATIO
         THEN LET ratio == min((sd * Scale) \div SLOWDOWN_START_RATIO,
                               SLOWDOWN_MAX_RATIO)
              IN  (((ratio * INTERVAL_BASE) \div Scale - iv) * 100) \div 1000
         ELSE ((INTERVAL_BASE - iv) * 80) \div 1000
\* (mutant: the ratio is not cut at SLOWDOWN_MAX_RATIO)
calculate_interval_unclamped(iv, sd) ==
    iv + IF sd > SLOWDOWN_START_RATIO
         THEN LET ratio == (sd * Scale) \div SLOWDOWN_START_RATIO
              IN  (((ratio * INTERVAL_BASE) \div Scale - iv) * 100) \div 1000
         ELSE ((INTERVAL_BASE - iv) * 80) \div 1000
\* MainLoop::calculate_interval; 0.1 and 0.08 are 100/1000 and 80/1000.
calculate_interval(iv, sd) ==
    iv + IF sd > SLOWDOWN_START_RATIO
         THEN LET ratio == min((sd * Scale) \div SLOWDOWN_START_RATIO,
                               SLOWDOWN_MAX_RATIO)
              IN  (((ratio * INTERVAL_BASE) \div Scale - iv) * 100) \div 1000
         ELSE ((INTERVAL_BASE - iv) * 80) \div 1000

\* (((now_tick as f32) - (prev_tick as f32)) / interval) as i32: the quotient
\* of the two roundings by interval, cut towards 0.
frame_of(now, prev, iv) ==
    LET d == as_f32(now) - as_f32(prev)
        a == IF d < 0 THEN 0 - d ELSE d
        t == Scale * (a \div iv) + ((a % iv) * Scale) \div iv
    IN  IF d < 0 THEN 0 - t ELSE t

\* (mutant: the backlog is not cut at MAX_SKIP_FRAME)
schedule_unclamped(now, prev, iv) ==
    LET fr == frame_of(now, prev, iv)
        interval_u32 == iv \div Scale
    IN  IF fr <= 0
        THEN [frame |-> fr, frames |-> 1, delay |-> prev + interval_u32 - now,
              prev_tick |-> prev + interval_u32]
        ELSE [frame |-> fr, frames |-> fr, delay |-> 0, prev_tick |-> now]
\* (mutant: a frame that is not yet due runs no step)
schedule_idle(now, prev, iv) ==
    LET fr == frame_of(now, prev, iv)
        interval_u32 == iv \div Scale
    IN  IF fr <= 0
        THEN [frame |-> fr, frames |-> 0, delay |-> prev + interval_u32 - now,
              prev_tick |-> prev + interval_u32]
        ELSE IF fr > MAX_SKIP_FRAME
        THEN [frame |-> fr, frames |-> MAX_SKIP_FRAME, delay |-> 0,
              prev_tick |-> now]
        ELSE [frame |-> fr, frames |-> fr, delay |-> 0, prev_tick |-> now]
\* The `let frames = if frame <= 0 {..} else if frame > MAX_SKIP_FRAME {..}
\* else {..}` of run: the steps to run, the delay asked of the timer (a u32:
\* below 0 it overflows) and the new prev_tick.
schedule(now, prev, iv) ==
    LET fr == frame_of(now, prev, iv)
        interval_u32 == iv \div Scale
    IN  IF fr <= 0
        THEN [frame |-> fr, frames |-> 1, delay |-> prev + interval_u32 - now,
              prev_tick |-> prev + interval_u32]
        ELSE IF fr > MAX_SKIP_FRAME
        THEN [frame |-> fr, frames |-> MAX_SKIP_FRAME, delay |-> 0,
              prev_tick |-> now]
        ELSE [frame |-> fr, frames |-> fr, delay |-> 0, prev_tick |-> now]

\* (mutant: a quit request is handed to the game like any other event)
on_event_forward(ev) == [is_done |-> FALSE, forward |-> TRUE]
\* (mutant: a quit request is taken from the queue and dropped)
on_event_drop(ev) ==
    IF ev = "Quit" THEN [is_done |-> FALSE, forward |-> FALSE]
    ELSE [is_done |-> FALSE, forward |-> TRUE]
\* `if let Event::Quit {..} = event { true } else { game.handle_event(..) }`.
on_event(ev) ==
    IF ev = "Quit" THEN [is_done |-> TRUE, forward |-> FALSE]
    ELSE [is_done |-> FALSE, forward |-> TRUE]

\* (mutant: the steps stop being collected after the first)
collected_first(rs, n) == Len(rs) >= 1
\* (mutant: the steps stop being collected at the first Done)
collected_done(rs, n) == Len(rs) = n \/ rs[Len(rs)].done
\* (0..frames).map(..).collect() has every result.
collected(rs, n) == Len(rs) = n

\* (mutant: the result of the steps replaces is_done)
done_after_steps_only(done, step_result) == step_result.done
\* `StepResult::Done => { is_done = true; .. }`.
done_after_steps(done, step_result) == IF step_result.done THEN TRUE ELSE done

\* (mutant: the loop goes on after a terminal frame)
after_draw_loop(done) == "poll"
\* (mutant: run returns from the loop without quitting the game)
after_draw_return(done) == IF done THEN "returned" ELSE "poll"
\* `if is_done { break; }`, then game.quit().
after_draw(done) == IF done THEN "quit" ELSE "poll"

\* (mutant: every error of the game is reported as a failed step)
context_step(stage) == "StepGame"
\* .context(ErrorKind::Mainloop(GameStep::..)) at the call of each stage.
context(stage) ==
    CASE stage = "init" -> "Initialize"
      [] stage = "handle_event" -> "HandleEvent"
      [] stage = "step" -> "StepGame"
      [] stage = "draw" -> "DrawFrame"
      [] stage = "quit" -> "Quit"

NoCalls == [init |-> 0, handle_event |-> 0, step |-> 0, draw |-> 0, quit |-> 0]
Called(stage) == calls' = [calls EXCEPT ![stage] = @ + 1]

\* No pool beside the main loop.
PoolOff ==
    /\ pool = <<>>
    /\ in_use = <<>>
    /\ panic = "none"
    /\ handle = 0
    /\ cap = 0
    /\ op = "off"
    /\ visited = <<>>
    /\ yielded = <<>>
    /\ allocOrder = <<>>
    /\ written = <<>>
    /\ since = "other"
    /\ nget = 0

\* MainLoop::run is called, at some tick count of the SDL timer.
LoopInit ==
    /\ PoolOff
    /\ AudioOff
    /\ ParOff
    /\ CalcOff
    /\ pc = "start"
    /\ result = "running"
    /\ events = <<>>
    /\ clock \in StartTicks
    /\ prev_tick = 0
    /\ interval = 0
    /\ is_done = FALSE
    /\ frames = 0
    /\ results = <<>>
    /\ slowdown = 0
    /\ calls = NoCalls
    /\ failed = "none"
    /\ frameNo = 0
    /\ polled = "-"
    /\ handled = "-"
    /\ elapsed = 0
    /\ frame = 0

\* (mutant: the error is noted and run goes on with the frame)
Fails_ignored(stage, kind) ==
    /\ pc' = IF stage = "step" THEN "draw" ELSE "returned"
    /\ result' = IF stage = "step" THEN result ELSE kind
    /\ failed' = stage
\* run returns the error of `stage`.
Fails(stage, kind) ==
    /\ pc' = "returned"
    /\ result' = kind
    /\ failed' = stage

\* event_pump() and timer(): either may fail with ErrorKind::Sdl.
Start ==
    /\ pc = "start"
    /\ \/ /\ pc' = "init"
          /\ prev_tick' = 0
          /\ interval' = INTERVAL_BASE
          /\ UNCHANGED <<result, failed>>
       \/ /\ Fails("sdl", "Sdl")
          /\ UNCHANGED <<prev_tick, interval>>
    /\ UNCHANGED <<events, clock, is_done, frames, results, slowdown, calls,
                   frameNo, polled, handled, elapsed, frame>>

\* game.init().
CallInit ==
    /\ pc = "init"
    /\ Called("init")
    /\ \/ pc' = "poll" /\ UNCHANGED <<result, failed>>
       \/ Fails("init", context("init"))
    /\ UNCHANGED <<events, clock, prev_tick, interval, is_done, frames, results,
                   slowdown, frameNo, polled, handled, elapsed, frame>>

\* An event reaches the queue.  Only poll_event looks at the queue, at the
\* start of a real frame, so arrivals are taken there.
Arrive ==
    /\ pc = "poll"
    /\ frameNo < MaxFrames
    /\ Len(events) < MaxQueue
    /\ \E ev \in Events : events' = Append(events, ev)
    /\ UNCHANGED <<pc, result, clock, prev_tick, interval, is_done, frames,
                   results, slowdown, calls, failed, frameNo, polled, handled,
                   elapsed, frame>>

\* A real frame starts: pump.poll_event() and the `if let Some(event)`.
Poll ==
    /\ pc = "poll"
    /\ frameNo < MaxFrames
    /\ frameNo' = frameNo + 1
    /\ calls' = [calls EXCEPT !.handle_event = 0, !.step = 0, !.draw = 0]
    /\ handled' = "-"
    /\ results' = <<>>
    /\ IF events = <<>>
       THEN /\ polled' = "None"
            /\ is_done' = FALSE
            /\ pc' = "ticks"
            /\ UNCHANGED events
       ELSE LET r == on_event(Head(events)) IN
            /\ polled' = Head(events)
            /\ events' = Tail(events)
            /\ is_done' = r.is_done
            /\ pc' = IF r.forward THEN "handle_event" ELSE "ticks"
    /\ UNCHANGED <<result, clock, prev_tick, interval, frames, slowdown, failed,
                   elapsed, frame>>

\* game.handle_event(&event).
HandleEvent ==
    /\ pc = "handle_event"
    /\ Called("handle_event")
    /\ \/ \E b \in BOOLEAN :
             /\ is_done' = b
             /\ handled' = IF b THEN "true" ELSE "false"
             /\ pc' = "ticks"
             /\ UNCHANGED <<result, failed>>
       \/ /\ Fails("handle_event", context("handle_event"))
          /\ UNCHANGED <<is_done, handled>>
    /\ UNCHANGED <<events, clock, prev_tick, interval, frames, results, slowdown,
                   frameNo, polled, elapsed, frame>>

\* timer.ticks(), the frame computation, the delay and Input::new.  dt is the
\* time gone by since the timer was last looked at; the delay sleeps the time
\* it is asked for (what it oversleeps is part of the next dt).
Ticks ==
    /\ pc = "ticks"
    /\ \E dt \in Elapses :
          LET now_tick == clock + dt
              sch == schedule(now_tick, prev_tick, interval)
          IN  /\ elapsed' = now_tick - prev_tick
              /\ frame' = sch.frame
              /\ IF sch.delay < 0
                 THEN /\ pc' = "returned"
                      /\ result' = "overflow"
                      /\ clock' = now_tick
                      /\ UNCHANGED <<prev_tick, frames>>
                 ELSE /\ pc' = "step"
                      /\ clock' = now_tick + sch.delay
                      /\ prev_tick' = sch.prev_tick
                      /\ frames' = sch.frames
                      /\ UNCHANGED result
    /\ UNCHANGED <<events, interval, is_done, results, slowdown, calls, failed,
                   frameNo, polled, handled>>

\* One game.step(&input) of the map; after the last one the fold and the
\* `match step_result`.
Step ==
    /\ pc = "step"
    /\ Called("step")
    /\ \/ \E r \in StepResults :
             LET rs == Append(results, r) IN
             /\ results' = rs
             /\ IF collected(rs, frames)
                THEN LET step_result == fold(Slowdown(0), rs) IN
                     /\ is_done' = done_after_steps(is_done, step_result)
                     /\ slowdown' = step_result.s
                     /\ pc' = "draw"
                ELSE UNCHANGED <<is_done, slowdown, pc>>
             /\ UNCHANGED <<result, failed>>
       \/ /\ Fails("step", context("step"))
          /\ UNCHANGED <<results, is_done, slowdown>>
    /\ UNCHANGED <<events, clock, prev_tick, interval, frames, frameNo, polled,
                   handled, elapsed, frame>>

\* game.draw(), the new interval and `if is_done { break; }`.
Draw ==
    /\ pc = "draw"
    /\ Called("draw")
    /\ \/ /\ interval' = IF ~NO_WAIT
                         THEN calculate_interval(interval, slowdown \div frames)
                         ELSE interval
          /\ pc' = after_draw(is_done)
          /\ UNCHANGED <<result, failed>>
       \/ /\ Fails("draw", context("draw"))
          /\ UNCHANGED interval
    /\ UNCHANGED <<events, clock, prev_tick, is_done, frames, results, slowdown,
                   frameNo, polled, handled, elapsed, frame>>

\* game.quit() and Ok(()).
Quit ==
    /\ pc = "quit"
    /\ Called("quit")
    /\ \/ pc' = "returned" /\ result' = "Ok" /\ UNCHANGED failed
       \/ Fails("quit", context("quit"))
    /\ UNCHANGED <<events, clock, prev_tick, interval, is_done, frames, results,
                   slowdown, frameNo, polled, handled, elapsed, frame>>

LoopNext ==
    \/ Start /\ UNCHANGED <<poolVars, calc, audio, par>>
    \/ CallInit /\ UNCHANGED <<poolVars, calc, audio, par>>
    \/ Arrive /\ UNCHANGED <<poolVars, calc, audio, par>>
    \/ Poll /\ UNCHANGED <<poolVars, calc, audio, par>>
    \/ HandleEvent /\ UNCHANGED <<poolVars, calc, audio, par>>
    \/ Ticks /\ UNCHANGED <<poolVars, calc, audio, par>>
    \/ Step /\ UNCHANGED <<poolVars, calc, audio, par>>
    \/ Draw /\ UNCHANGED <<poolVars, calc, audio, par>>
    \/ Quit /\ UNCHANGED <<poolVars, calc, audio, par>>

SpecLoop == LoopInit /\ [][LoopNext]_vars

(***************************************************************************)
(* Properties of MainLoop::run                                             *)
(***************************************************************************)
Stages == {"init", "handle_event", "step", "draw", "quit"}
\* The step invokes the callback `stage`.
Invokes(stage) == calls'[stage] = calls[stage] + 1
\* The step stays within the current real frame.
SameFrame == frameNo' = frameNo

\* C13: a run that got its event pump and its timer and in which no callback
\* returned an error has ended with init invoked exactly once, quit invoked
\* exactly once, and the result Ok.
C13_RunBracketed ==
    (pc = "returned" /\ failed = "none") =>
        (result = "Ok" /\ calls.init = 1 /\ calls.quit = 1)

\* C14: in a real frame draw is invoked at most once, only after all the
\* steps scheduled for the frame and after the frame's handle_event, neither
\* of which is invoked again in the frame; a frame that completes has invoked
\* it exactly once, whatever the number of steps (1 to MAX_SKIP_FRAME).
C14_DrawOncePerFrame ==
    /\ [](calls.draw <= 1)
    /\ []((pc \in {"poll", "quit"} /\ frameNo >= 1) =>
             /\ calls.draw = 1
             /\ frames \in 1..MAX_SKIP_FRAME
             /\ calls.step = frames
             /\ calls.handle_event = IF polled = "Key" THEN 1 ELSE 0)
    /\ [][/\ Invokes("draw") =>
                /\ calls.step = frames
                /\ calls.handle_event = IF polled = "Key" THEN 1 ELSE 0
          /\ (calls.draw = 1 /\ SameFrame) =>
                /\ calls'.draw = 1
                /\ calls'.step = calls.step
                /\ calls'.handle_event = calls.handle_event
         ]_vars
C14_Witness ==
    /\ pc = "poll"
    /\ polled = "Key"
    /\ frames = 2
    /\ calls.handle_event = 1
    /\ calls.step = 2
    /\ calls.draw = 1

\* The frame has read the timer: elapsed is its now_tick - prev_tick.
AfterTicks == pc \in {"step", "draw"} \/ result = "overflow"
\* a / iv cut towards 0, for a >= 0 in ticks and iv in 1/Scale ticks.
trunc_quot(a, iv) == Scale * (a \div iv) + ((a % iv) * Scale) \div iv

\* C15: a frame that starts with now_tick - prev_tick in [0, interval) runs
\* exactly one step.
C15_OneTickWhenNotDue ==
    (pc \in {"step", "draw"} /\ 0 <= elapsed /\ elapsed <= (interval - 1) \div Scale) =>
        /\ frames = 1
        /\ pc = "draw" => calls.step = 1

\* C16: a frame that starts with trunc((now_tick - prev_tick) / interval) >= 1
\* runs min of that and MAX_SKIP_FRAME steps and sets prev_tick to now_tick.
C16_BacklogClamped ==
    (AfterTicks /\ trunc_quot(elapsed, interval) >= 1) =>
        /\ result # "overflow"
        /\ frames = min(trunc_quot(elapsed, interval), MAX_SKIP_FRAME)
        /\ prev_tick = clock
        /\ pc = "draw" => calls.step = frames

\* C17: a real frame takes at most one event from the queue, its first; a
\* quit event is not handed to handle_event and sets the frame's terminal
\* flag; any other event is handed to handle_event exactly once; without an
\* event handle_event is not called.
C17_EventDispatch ==
    /\ [](polled \in {"None", "Quit"} =>
             /\ calls.handle_event = 0
             /\ pc # "handle_event")
    /\ []((polled = "Quit" /\ pc \in {"ticks", "step", "draw"}) => is_done)
    /\ [](polled = "Key" =>
             calls.handle_event = IF pc = "handle_event" THEN 0 ELSE 1)
    /\ [][/\ events' # events =>
                \/ Arrive
                \/ /\ frameNo' = frameNo + 1
                   /\ events' = Tail(events)
                   /\ polled' = Head(events)
          /\ (SameFrame /\ events' # events) => Len(events') > Len(events)
          /\ (frameNo' # frameNo /\ events = <<>>) => polled' = "None"
         ]_vars
C17_Witness ==
    /\ polled = "Quit"
    /\ pc = "draw"
    /\ is_done
    /\ events # <<>>
    /\ calls.handle_event = 0

\* C18: a run that ends without an error of a callback in a frame whose
\* handle_event returned true has run the frame's steps and its draw and
\* then quit; a frame whose handle_event returned false and whose steps did
\* not return Done does not end the run.
C18_HandleEventTerminal ==
    (pc = "returned" /\ failed = "none") =>
        /\ handled = "true" =>
              /\ result = "Ok"
              /\ calls.step = frames
              /\ calls.draw = 1
              /\ calls.quit = 1
        /\ handled # "false" \/ \E i \in 1..Len(results) : results[i].done

\* C19: when no callback fails, the run ends in the frame that took the quit
\* event from the queue, with quit invoked exactly once and the result Ok.
C19_QuitEvent ==
    (polled = "Quit" /\ failed = "none") =>
        /\ pc = "returned" => (result = "Ok" /\ calls.quit = 1)
        /\ result \in {"running", "Ok"}

\* C20: an error of init, handle_event, step, draw or quit ends the run with
\* the Mainloop error of that stage, and the callback is not called again.
C20_ErrorKinds ==
    /\ [](/\ failed = "init" => result = "Initialize" /\ calls.init = 1
          /\ failed = "handle_event" =>
                result = "HandleEvent" /\ calls.handle_event = 1
          /\ failed = "step" => result = "StepGame" /\ calls.step \in 1..frames
          /\ failed = "draw" => result = "DrawFrame" /\ calls.draw = 1
          /\ failed = "quit" => result = "Quit" /\ calls.quit = 1
          /\ failed \in Stages => pc = "returned")
    /\ [][failed # "none" => UNCHANGED <<calls, result, failed, pc>>]_vars
C20_Witness == failed = "step" /\ result = "StepGame" /\ calls.step = 2 /\ frames = 5

\* C21: quit is invoked exactly when the loop is left through the terminal
\* flag: only from a frame whose draw succeeded with is_done set, and always
\* then; after an error of init, handle_event, step or draw quit has not been
\* invoked and the result is that error.
C21_QuitIffTerminal ==
    /\ [](failed \in {"init", "handle_event", "step", "draw"} =>
             /\ calls.quit = 0
             /\ result = context(failed))
    /\ [](result = "Ok" => calls.quit = 1)
    /\ [](calls.quit = 1 => (is_done /\ calls.draw = 1 /\ calls.step = frames))
    /\ [][/\ Invokes("quit") => (pc = "quit" /\ is_done /\ failed = "none")
          /\ (Invokes("draw") /\ failed' = "none") =>
                /\ is_done => pc' = "quit"
                /\ ~is_done => pc' = "poll"
         ]_vars
C21_Witness ==
    /\ pc = "returned"
    /\ result = "Ok"
    /\ calls.quit = 1
    /\ frameNo = 2
    /\ handled = "true"

(***************************************************************************)
(* math.rs: wrap_inc, wrap_inc_by, wrap_dec, wrap_dec_by, with T = u8       *)
(***************************************************************************)
\* u8::MAX, the largest value of the type the functions are used at here.
T_MAX == 255
\* The values the arguments are drawn from.
T_Samples == {0, 1, 2, 3, 100, 200, 250, 254, 255}

\* An operation that gave x.
Ok(x) == [panic |-> FALSE, wrapped |-> FALSE, val |-> x]
\* An operation whose result does not fit its type and is x once wrapped:
\* a panic where the build checks overflow, x where it does not.
Overflowed(x) ==
    IF calc.checks THEN [panic |-> TRUE, wrapped |-> FALSE, val |-> 0]
    ELSE [panic |-> FALSE, wrapped |-> TRUE, val |-> x]
\* The operation F on the value of r, unless r panicked.
After(r, F(_)) ==
    IF r.panic THEN r
    ELSE LET q == F(r.val) IN [q EXCEPT !.wrapped = @ \/ r.wrapped]

\* `+` and `-` of T.
add_T(a, b) ==
    IF a + b <= T_MAX THEN Ok(a + b) ELSE Overflowed((a + b) % (T_MAX + 1))
sub_T(a, b) ==
    IF a >= b THEN Ok(a - b) ELSE Overflowed((a - b) % (T_MAX + 1))

wrap_inc_by(value, max, step) ==
    After(add_T(value, step),
          LAMBDA new_value : IF new_value >= max THEN sub_T(new_value, max)
                                                 ELSE Ok(new_value))
wrap_inc(value, max) == wrap_inc_by(value, max, 1)
wrap_dec_by(value, max, step) ==
    IF value < step
    THEN After(add_T(value, max), LAMBDA sum : sub_T(sum, step))
    ELSE sub_T(value, step)
wrap_dec(value, max) == wrap_dec_by(value, max, 1)

\* The function fn has returned r.
Returned(fn, r) ==
    calc' = [calc EXCEPT !.fn = fn, !.panic = r.panic, !.wrapped = r.wrapped,
                         !.val = r.val]

\* A value, a max and a step of type T, in a build of either kind.
MathInit ==
    /\ PoolOff
    /\ AudioOff
    /\ ParOff
    /\ LoopOff
    /\ \E value \in T_Samples, max \in T_Samples, step \in T_Samples,
          checks \in BOOLEAN :
          calc = [NoCalc EXCEPT !.args = <<value, max, step>>,
                                !.checks = checks]

WrapInc ==
    /\ calc.fn = "none"
    /\ Returned("wrap_inc", wrap_inc(calc.args[1], calc.args[2]))
WrapIncBy ==
    /\ calc.fn = "none"
    /\ Returned("wrap_inc_by",
                wrap_inc_by(calc.args[1], calc.args[2], calc.args[3]))
WrapDec ==
    /\ calc.fn = "none"
    /\ Returned("wrap_dec", wrap_dec(calc.args[1], calc.args[2]))
WrapDecBy ==
    /\ calc.fn = "none"
    /\ Returned("wrap_dec_by",
                wrap_dec_by(calc.args[1], calc.args[2], calc.args[3]))
\* wrap_dec_by(wrap_inc_by(value, max, step), max, step).
WrapIncDecBy ==
    /\ calc.fn = "none"
    /\ Returned("wrap_dec_by(wrap_inc_by)",
                After(wrap_inc_by(calc.args[1], calc.args[2], calc.args[3]),
                      LAMBDA v : wrap_dec_by(v, calc.args[2], calc.args[3])))

MathNext ==
    \/ WrapInc /\ UNCHANGED <<poolVars, loopVars, audio, par>>
    \/ WrapIncBy /\ UNCHANGED <<poolVars, loopVars, audio, par>>
    \/ WrapDec /\ UNCHANGED <<poolVars, loopVars, audio, par>>
    \/ WrapDecBy /\ UNCHANGED <<poolVars, loopVars, audio, par>>
    \/ WrapIncDecBy /\ UNCHANGED <<poolVars, loopVars, audio, par>>

SpecMath == MathInit /\ [][MathNext]_vars

\* C22: with 0 <= value < max and 0 <= step <= max, wrap_inc_by returns
\* (value + step) mod max and wrap_dec_by (value - step) mod max, wrap_inc
\* and wrap_dec the same for step 1, and wrap_dec_by undoes wrap_inc_by.
C22_WrapMod ==
    LET value == calc.args[1]
        max == calc.args[2]
        step == calc.args[3]
    IN  (calc.fn # "none" /\ 0 <= value /\ value < max) =>
           /\ calc.fn = "wrap_inc" =>
                 (~calc.panic /\ calc.val = (value + 1) % max)
           /\ calc.fn = "wrap_dec" =>
                 (~calc.panic /\ calc.val = (value - 1) % max)
           /\ (calc.fn = "wrap_inc_by" /\ 0 <= step /\ step <= max) =>
                 (~calc.panic /\ calc.val = (value + step) % max)
           /\ (calc.fn = "wrap_dec_by" /\ 0 <= step /\ step <= max) =>
                 (~calc.panic /\ calc.val = (value - step) % max)
           /\ (calc.fn = "wrap_dec_by(wrap_inc_by)" /\ 0 <= step /\ step <= max) =>
                 (~calc.panic /\ calc.val = value)

(***************************************************************************)
(* rand.rs: Rand::next_int and Rand::next_int_signed                       *)
(*                                                                         *)
(* A u32 is the pair <<hi, lo>> of its 16-bit halves (hi * 2^16 + lo), so  *)
(* that all 32 bits are kept; an i32 is an integer.                        *)
(***************************************************************************)
Half == 65536
I32_MAX == 2147483647
I32_MIN == (0 - I32_MAX) - 1
U32_Zero == <<0, 0>>
\* The values n and the outputs of the generator are drawn from:
\* 0, 1, 2, 3, 100, 2^30, 2^31 - 1, 2^31, 2^32 - 2, 2^32 - 1.
U32_Samples ==
    {<<0, 0>>, <<0, 1>>, <<0, 2>>, <<0, 3>>, <<0, 100>>, <<16384, 0>>,
     <<32767, 65535>>, <<32768, 0>>, <<65535, 65534>>, <<65535, 65535>>}

u32_lt(a, b) == a[1] < b[1] \/ (a[1] = b[1] /\ a[2] < b[2])
\* a - b for a >= b.
u32_sub(a, b) ==
    IF a[2] >= b[2] THEN <<a[1] - b[1], a[2] - b[2]>>
    ELSE <<a[1] - b[1] - 1, a[2] + Half - b[2]>>
\* 2 * a and a + 1 of u32.
u32_twice(a) ==
    LET lo == 2 * a[2]
        hi == 2 * a[1] + lo \div Half
    IN  IF hi < Half THEN Ok(<<hi, lo % Half>>)
        ELSE Overflowed(<<hi % Half, lo % Half>>)
u32_succ(a) ==
    IF a[2] + 1 < Half THEN Ok(<<a[1], a[2] + 1>>)
    ELSE IF a[1] + 1 < Half THEN Ok(<<a[1] + 1, 0>>)
    ELSE Overflowed(U32_Zero)
\* x % m of u32, m # 0.
RECURSIVE u32_rem(_, _)
u32_rem(x, m) ==
    IF u32_lt(x, m) THEN x
    ELSE IF 2 * m[1] >= Half THEN u32_sub(x, m)
    ELSE LET r == u32_rem(x, u32_twice(m).val)
         IN  IF u32_lt(r, m) THEN r ELSE u32_sub(r, m)
\* `as i32` of a u32: the same 32 bits; it never panics.
as_i32(a) ==
    IF 2 * a[1] < Half
    THEN Ok(a[1] * Half + a[2])
    ELSE [panic |-> FALSE, wrapped |-> TRUE, val |-> (a[1] - Half) * Half + a[2]]
\* a - b of i32.
i32_sub(a, b) ==
    IF b > 0 /\ a < I32_MIN + b
    THEN Overflowed(((a - I32_MIN) - b) - I32_MIN)
    ELSE IF b < 0 /\ a > I32_MAX + b
    THEN Overflowed((((a - I32_MAX) - 1) - b) + I32_MIN)
    ELSE Ok(a - b)

\* next_int(n), the generator giving x at self.next_u32().
next_int(x, n) == IF n = U32_Zero THEN Ok(U32_Zero) ELSE Ok(u32_rem(x, n))
\* next_int_signed(n), the generator giving x at self.next_u32().
next_int_signed(x, n) ==
    IF n = U32_Zero THEN Ok(0)
    ELSE After(u32_twice(n), LAMBDA n2 :
         After(u32_succ(n2), LAMBDA m :
         After(as_i32(u32_rem(x, m)), LAMBDA r :
         After(as_i32(n), LAMBDA ni : i32_sub(r, ni)))))

RandInit ==
    /\ PoolOff
    /\ AudioOff
    /\ ParOff
    /\ LoopOff
    /\ \E x \in U32_Samples, n \in U32_Samples, checks \in BOOLEAN :
          calc = [NoCalc EXCEPT !.args = <<x, n>>, !.checks = checks]

NextInt ==
    /\ calc.fn = "none"
    /\ Returned("next_int", next_int(calc.args[1], calc.args[2]))
NextIntSigned ==
    /\ calc.fn = "none"
    /\ Returned("next_int_signed", next_int_signed(calc.args[1], calc.args[2]))

RandNext ==
    \/ NextInt /\ UNCHANGED <<poolVars, loopVars, audio, par>>
    \/ NextIntSigned /\ UNCHANGED <<poolVars, loopVars, audio, par>>

SpecRand == RandInit /\ [][RandNext]_vars

\* C23: next_int(n) is in [0, n), 0 for n = 0, and next_int_signed(n) is in
\* [-n, n], and no operation or cast of either overflows or wraps.
C23_RandRanges ==
    LET n == calc.args[2] IN
    /\ calc.fn = "next_int" =>
          /\ ~calc.panic /\ ~calc.wrapped
          /\ IF n = U32_Zero THEN calc.val = U32_Zero ELSE u32_lt(calc.val, n)
    /\ calc.fn = "next_int_signed" =>
          /\ ~calc.panic /\ ~calc.wrapped
          /\ \/ 2 * n[1] >= Half
             \/ LET ni == n[1] * Half + n[2]
                IN  0 - ni <= calc.val /\ calc.val <= ni

(***************************************************************************)
(* More properties of MainLoop::run                                        *)
(***************************************************************************)
\* A step of the current frame has returned Done.
HasDone == \E i \in 1..Len(results) : results[i].done

MergeSamples ==
    {Done, Slowdown(0), Slowdown(1), Slowdown(Scale), Slowdown(2^24),
     Slowdown(2^24 + 2)}

MergeInit ==
    /\ PoolOff
    /\ AudioOff
    /\ ParOff
    /\ LoopOff
    /\ \E a \in MergeSamples, b \in MergeSamples, c \in MergeSamples :
          calc = [NoCalc EXCEPT !.args = <<a, b, c>>]

\* a.merge(b), b.merge(a), and each of a and Slowdown(0.) merged with the other.
MergePair ==
    /\ calc.fn = "none"
    /\ LET a == calc.args[1]
           b == calc.args[2]
       IN  calc' = [calc EXCEPT !.fn = "merge",
                                !.val = [ab |-> merge(a, b), ba |-> merge(b, a),
                                         az |-> merge(a, Slowdown(0)),
                                         za |-> merge(Slowdown(0), a)]]
\* a.merge(b).merge(c) and a.merge(b.merge(c)).
MergeTriple ==
    /\ calc.fn = "none"
    /\ LET a == calc.args[1]
           b == calc.args[2]
           c == calc.args[3]
       IN  calc' = [calc EXCEPT !.fn = "merge3",
                                !.val = [l |-> merge(merge(a, b), c),
                                         r |-> merge(a, merge(b, c))]]
\* The fold of run over the first n of the results.
FoldResults ==
    /\ calc.fn = "none"
    /\ \E n \in 0..3 :
          calc' = [calc EXCEPT !.fn = "fold",
                               !.val = [n |-> n,
                                        out |-> fold(Slowdown(0),
                                                     SubSeq(calc.args, 1, n))]]

MergeNext ==
    \/ MergePair /\ UNCHANGED <<poolVars, loopVars, audio, par>>
    \/ MergeTriple /\ UNCHANGED <<poolVars, loopVars, audio, par>>
    \/ FoldResults /\ UNCHANGED <<poolVars, loopVars, audio, par>>

SpecMerge == MergeInit /\ [][MergeNext]_vars

\* The slowdowns of rs added from the left, each sum rounded to f32.
RECURSIVE LeftSum(_, _)
LeftSum(acc, rs) ==
    IF rs = <<>> THEN acc ELSE LeftSum(as_f32(acc + Head(rs).s), Tail(rs))
\* merge of two results is commutative, gives the f32 sum of two slowdowns
\* and Done when either is Done, and leaves a result merged with
\* Slowdown(0.) as it is; the fold from Slowdown(0.) gives Done if a result is
\* Done and otherwise the slowdowns added from the left.
MergeLaws ==
    /\ calc.fn = "merge" =>
          LET a == calc.args[1]
              b == calc.args[2]
          IN  /\ calc.val.ab = calc.val.ba
              /\ (~a.done /\ ~b.done) =>
                    calc.val.ab = Slowdown(as_f32(a.s + b.s))
              /\ (a.done \/ b.done) => calc.val.ab = Done
              /\ calc.val.az = a
              /\ calc.val.za = a
    /\ calc.fn = "fold" =>
          LET rs == SubSeq(calc.args, 1, calc.val.n) IN
          calc.val.out = IF \E i \in 1..Len(rs) : rs[i].done THEN Done
                         ELSE Slowdown(LeftSum(0, rs))
\* The three results have a Done among them or slowdowns whose sums are f32.
ExactSums ==
    LET a == calc.args[1]
        b == calc.args[2]
        c == calc.args[3]
    IN  a.done \/ b.done \/ c.done \/ a.s + b.s + c.s < 2^24

\* C28 as stated: the laws of merge, and merge is associative.
C28_MergeAssociative ==
    /\ MergeLaws
    /\ calc.fn = "merge3" => calc.val.l = calc.val.r
\* C28 (amended): the laws of merge, and merge is associative where a Done is
\* among the three results or the sums of the slowdowns are exact in f32; the
\* fold then gives their sum.
C28_MergeAssociativeWhenExact ==
    /\ MergeLaws
    /\ (calc.fn = "merge3" /\ ExactSums) => calc.val.l = calc.val.r
    /\ (calc.fn = "fold" /\ calc.val.n = 3 /\ ExactSums /\ ~calc.val.out.done) =>
          calc.val.out.s = calc.args[1].s + calc.args[2].s + calc.args[3].s
C28_Witness ==
    /\ calc.fn = "merge3"
    /\ calc.args = <<Slowdown(Scale), Slowdown(1), Slowdown(Scale)>>
    /\ calc.val.l = Slowdown(2 * Scale + 1)
    /\ calc.val.r = calc.val.l

(***************************************************************************)
(* The interval of MainLoop::run                                           *)
(***************************************************************************)
\* C29: interval changes only when a draw has succeeded, once in the frame,
\* to interval + 0.1 * (min(s, 1.75) * 16 - interval) if s > 1 and to
\* interval + 0.08 * (16 - interval) otherwise, s = 1 included, s being the
\* sum of the frame's slowdowns over its number of steps, 0 after a Done.
C29_IntervalUpdate ==
    [][/\ (interval' # interval /\ pc # "start") =>
              (Invokes("draw") /\ failed' = "none")
       /\ (Invokes("draw") /\ failed' = "none") =>
              LET s == IF HasDone THEN 0 ELSE LeftSum(0, results) \div frames
                  sixteen == 16 * Scale
                  cap175 == (175 * Scale) \div 100
              IN  /\ Len(results) = frames
                  /\ calls'.draw = 1
                  /\ s > Scale =>
                        interval' = interval +
                            ((((IF s < cap175 THEN s ELSE cap175) * 16)
                               - interval) * 100) \div 1000
                  /\ s <= Scale =>
                        interval' = interval +
                            ((sixteen - interval) * 80) \div 1000
      ]_vars
\* A frame of two steps whose slowdowns are 0 and 2, so s = 1 exactly, has
\* moved a raised interval back towards 16.
C29_Witness ==
    /\ calls.draw = 1
    /\ frames = 2
    /\ ~HasDone
    /\ slowdown = 2 * Scale
    /\ interval > INTERVAL_BASE
    /\ pc = "poll"

\* The frames of a game whose every step returns Slowdown(2.).
MaxSlowFrames == 24
SlowInit ==
    /\ PoolOff
    /\ AudioOff
    /\ ParOff
    /\ CalcOff
    /\ pc = "frame"
    /\ result = "running"
    /\ events = <<>>
    /\ clock = 0
    /\ prev_tick = 0
    /\ interval = INTERVAL_BASE
    /\ is_done = FALSE
    /\ frames = 0
    /\ results = <<>>
    /\ slowdown = 0
    /\ calls = NoCalls
    /\ failed = "none"
    /\ frameNo = 0
    /\ polled = "-"
    /\ handled = "-"
    /\ elapsed = 0
    /\ frame = 0
\* A real frame of 1 to MAX_SKIP_FRAME steps from its steps on: the results,
\* their fold, the slowdown and the new interval.
SlowFrame ==
    /\ frameNo < MaxSlowFrames
    /\ \E n \in 1..MAX_SKIP_FRAME :
          LET rs == [i \in 1..n |-> Slowdown(2 * Scale)]
              step_result == fold(Slowdown(0), rs)
          IN  /\ frames' = n
              /\ results' = rs
              /\ is_done' = done_after_steps(FALSE, step_result)
              /\ slowdown' = step_result.s
              /\ interval' = calculate_interval(interval, step_result.s \div n)
    /\ frameNo' = frameNo + 1
    /\ UNCHANGED <<pc, result, events, clock, prev_tick, calls, failed, polled,
                   handled, elapsed, frame>>
SlowNext == SlowFrame /\ UNCHANGED <<poolVars, calc, audio, par>>
SpecSlow == SlowInit /\ [][SlowNext]_vars

\* C30: with Slowdown(2.) from every step, frame after frame of 1 to 5
\* steps, interval never falls and never exceeds 1.75 * 16 = 28.
C30_SlowdownMonotone ==
    /\ [](interval <= 28 * Scale)
    /\ [][interval' >= interval]_vars
C30_Witness ==
    /\ frameNo = MaxSlowFrames
    /\ frames = MAX_SKIP_FRAME
    /\ interval > 26 * Scale
    /\ interval < 28 * Scale

(***************************************************************************)
(* The sleep of MainLoop::run                                              *)
(***************************************************************************)
\* The timer has been read in this step and the frame is not yet due.
NotDue == pc = "ticks" /\ pc' # "ticks" /\ frame' <= 0

\* C31: in a frame that is not yet due the loop sleeps until the clock is at
\* prev_tick + interval and moves prev_tick on by interval, whatever the
\* value of interval.
C31_SleepOneInterval ==
    [][NotDue =>
          /\ result' # "overflow"
          /\ (clock' - prev_tick) * Scale = interval
          /\ (prev_tick' - prev_tick) * Scale = interval
      ]_vars

\* The delay asked of the timer in the frame: prev_tick has moved on by
\* interval as u32, and the run was prev_tick + elapsed - interval as u32
\* before it.
delay_asked == (interval \div Scale) - elapsed
\* C32: the delay asked of the timer is never below 0, so the u32 does not
\* overflow, and is less than interval.
C32_DelayBounded ==
    /\ result # "overflow"
    /\ (pc \in {"step", "draw"} /\ frame <= 0) =>
          /\ delay_asked >= 0
          /\ delay_asked * Scale < interval

(***************************************************************************)
(* The steps of a frame                                                    *)
(***************************************************************************)
\* C35: a real frame that gets to its steps has at least 1 and at most
\* MAX_SKIP_FRAME of them scheduled, also when it took a quit request from
\* the queue or handle_event returned true; draw is not reached with no step
\* run.
C35_TicksPerFrame ==
    (pc \in {"step", "draw"}) =>
        /\ frames >= 1
        /\ frames <= 5
        /\ calls.step <= frames
        /\ pc = "draw" => calls.step >= 1
\* The frame that took the quit request has the most steps scheduled, and
\* one in which handle_event returned true has one.
C35_Witness ==
    /\ pc = "step"
    /\ \/ polled = "Quit" /\ is_done /\ frames = MAX_SKIP_FRAME
       \/ handled = "true" /\ is_done /\ frames = 1 /\ frameNo = 2

\* C38: when a step of a frame returns an error, the steps after it and draw
\* are not invoked in the frame, interval stays as it is, no other frame
\* starts and run returns ErrorKind::StepGame.
C38_StepError ==
    /\ [](failed = "step" =>
             /\ pc = "returned"
             /\ result = "StepGame"
             /\ calls.step = Len(results) + 1
             /\ calls.step <= frames
             /\ calls.draw = 0
             /\ calls.quit = 0)
    /\ [][failed = "step" => UNCHANGED <<interval, frameNo, calls>>]_vars
    /\ [][failed' = "step" => interval' = interval]_vars
\* The second of five steps has failed, after a first that asked for a
\* slowdown.
C38_Witness ==
    /\ failed = "step"
    /\ frames = MAX_SKIP_FRAME
    /\ calls.step = 2
    /\ results = <<Slowdown(2 * Scale)>>
    /\ interval = INTERVAL_BASE
    /\ pc = "returned"

EndCursor(vis) ==
    IF vis = <<>> THEN 0
    ELSE Last(vis).idx + (IF Last(vis).status = Keep THEN 1 ELSE 0)
\* The objects in use after the first k callbacks of a scan of m objects.
LenAfter(m, vis, k) ==
    m - Cardinality({j \in 1..k : vis[j].status = Remove})
\* C39: run, run_ref and expire end: a callback or predicate either moves
\* the cursor on by one or takes one object out of in_use, so with m objects
\* in use it is invoked m times, and the scan ends with the cursor at the
\* length of in_use.
C39_ScansTerminate ==
    [][op' \in {"run", "run_ref", "expire"} =>
          LET m == Len(in_use)
              vis == visited'
          IN  /\ Len(vis) = m
              /\ \A k \in 1..Len(vis) :
                    /\ vis[k].idx = k - 1
                                    - Cardinality({j \in 1..(k - 1) :
                                                     vis[j].status = Remove})
                    /\ vis[k].idx < LenAfter(m, vis, k - 1)
                    /\ LenAfter(m, vis, k) - EndCursor(SubSeq(vis, 1, k))
                          = LenAfter(m, vis, k - 1) - vis[k].idx - 1
              /\ EndCursor(vis) = Len(in_use')
              /\ Len(in_use') = LenAfter(m, vis, m)
      ]_vars
\* run_ref has taken the first of three objects out and kept the last.
C39_Witness ==
    /\ op = "run_ref"
    /\ Len(visited) = 3
    /\ visited[1].status = Remove
    /\ visited[3].status = Keep
    /\ EndCursor(visited) = Len(in_use)

(***************************************************************************)
(* The range of interval                                                   *)
(***************************************************************************)
\* The frames one run of the adaptation takes.
MaxAdaptFrames == 2
\* What a step may return: Done and slowdowns below, at, just above and far
\* above SLOWDOWN_START_RATIO.
AdaptResults ==
    {Done, Slowdown(0 - Scale), Slowdown(0), Slowdown(Scale),
     Slowdown(Scale + 1), Slowdown(3 * Scale), Slowdown(100 * Scale)}
\* interval after k frames whose steps all returned Slowdown(2.).
RECURSIVE IntervalAfter(_)
IntervalAfter(k) ==
    IF k = 0 THEN INTERVAL_BASE
    ELSE calculate_interval(IntervalAfter(k - 1), 2 * Scale)
\* The frames of Slowdown(2.) that came before: none, a few, and so many that
\* interval has all but stopped rising.
WarmUps == {0, 8, 24, 80}

\* run some frames after its start.
AdaptInit ==
    /\ PoolOff
    /\ AudioOff
    /\ ParOff
    /\ CalcOff
    /\ pc = "frame"
    /\ result = "running"
    /\ events = <<>>
    /\ clock = 0
    /\ prev_tick = 0
    /\ \E k \in WarmUps : interval = IntervalAfter(k)
    /\ is_done = FALSE
    /\ frames = 0
    /\ results = <<>>
    /\ slowdown = 0
    /\ calls = NoCalls
    /\ failed = "none"
    /\ frameNo = 0
    /\ polled = "-"
    /\ handled = "-"
    /\ elapsed = 0
    /\ frame = 0
\* A real frame of 1 to MAX_SKIP_FRAME steps from its steps on; the first
\* step returns a, the others b.
AdaptFrame ==
    /\ frameNo < MaxAdaptFrames
    /\ \E n \in 1..MAX_SKIP_FRAME, a \in AdaptResults, b \in AdaptResults :
          LET rs == [i \in 1..n |-> IF i = 1 THEN a ELSE b]
              step_result == fold(Slowdown(0), rs)
          IN  /\ frames' = n
              /\ results' = rs
              /\ is_done' = done_after_steps(FALSE, step_result)
              /\ slowdown' = step_result.s
              /\ interval' = calculate_interval(interval, step_result.s \div n)
    /\ frameNo' = frameNo + 1
    /\ UNCHANGED <<pc, result, events, clock, prev_tick, calls, failed, polled,
                   handled, elapsed, frame>>
AdaptNext == AdaptFrame /\ UNCHANGED <<poolVars, calc, audio, par>>
SpecAdapt == AdaptInit /\ [][AdaptNext]_vars

\* C36: interval is at least INTERVAL_BASE = 16 and at most
\* SLOWDOWN_MAX_RATIO * INTERVAL_BASE = 28, whatever the steps return and
\* however many there are in a frame.
C36_IntervalRange ==
    /\ interval >= 16 * Scale
    /\ interval <= 28 * Scale
\* A frame with a slowdown far above the maximum, taken with interval close
\* to 28, and one with a negative slowdown, taken with interval close to 16.
C36_Witness ==
    /\ frameNo = MaxAdaptFrames
    /\ \/ /\ interval > 27 * Scale
          /\ slowdown >= 100 * Scale
       \/ /\ interval < 17 * Scale
          /\ slowdown < 0

----------------------------------------------------------------------------
(* Audio (src/src/audio.rs): the music and its fade.                        *)
(*                                                                          *)
(* audio.music_enabled  Audio::music_enabled                                *)
(* audio.music_sink     "music" while the sink has the source play_music    *)
(*                      built, "empty" after halt or before                 *)
(* audio.fade_time      Controls::fade_time                                 *)
(* audio.factor         the factor of the Amplify of that source, as the    *)
(*                      number of 1/FADE_OUT_TIME: FADE_OUT_TIME is 1.0     *)
(* audio.pc, .fade      the periodic access of the playing thread: "idle",  *)
(*                      or "loaded" between its load of fade_time, kept in  *)
(*                      fade, and its store                                 *)
(* audio.stale          the access under way is that of a source the sink   *)
(*                      has let go since                                    *)
(* audio.faded          history: "no", or how far the fade asked for last   *)
(*                      has got: "called", "fading" after an access,        *)
(*                      "silent" once the factor was 0                      *)

FADE_OUT_TIME == 1280
FADE_ACCESS_INTERVAL == 8

\* Audio::new: music on, nothing in the sink, Controls::default().
AudioInit ==
    /\ PoolOff
    /\ LoopOff
    /\ CalcOff
    /\ ParOff
    /\ audio = [music_enabled |-> TRUE, music_sink |-> "empty",
                fade_time |-> -1, factor |-> FADE_OUT_TIME, pc |-> "idle",
                fade |-> 0, stale |-> FALSE, faded |-> "no"]

\* Audio::set_music_enabled.
SetMusicEnabled ==
    \E enabled \in BOOLEAN :
       /\ audio.music_enabled # enabled
       /\ audio' = [audio EXCEPT !.music_enabled = enabled]

\* Audio::halt: the sink is replaced by a new one.
Halt ==
    /\ audio.music_sink = "music"
    /\ audio' = [audio EXCEPT !.music_sink = "empty",
                              !.stale = (audio.pc = "loaded"),
                              !.faded = "no"]

\* Audio::play_music: with music on, halt() and then a source with
\* amplify(1.0) and the periodic access in the new sink; with music off,
\* nothing.
PlayMusic ==
    /\ audio.music_enabled
    /\ audio' = [audio EXCEPT !.music_sink = "music",
                              !.factor = FADE_OUT_TIME,
                              !.stale = (audio.pc = "loaded"),
                              !.faded = "no"]

\* Audio::fade.
Fade ==
    audio' = [audio EXCEPT !.fade_time = FADE_OUT_TIME,
                           !.faded = IF audio.music_sink = "music"
                                     THEN "called" ELSE @]

\* What the access stores in fade_time and the factor it sets, for the value
\* it loaded.
access(fade, fade_time) ==
    IF fade < 0
    THEN [fade_time |-> fade_time, factor |-> FADE_OUT_TIME]
    ELSE [fade_time |-> fade - FADE_ACCESS_INTERVAL, factor |-> fade]

\* The periodic access of the playing thread: the load of fade_time.
AccessLoad ==
    /\ audio.music_sink = "music"
    /\ audio.pc = "idle"
    /\ audio' = [audio EXCEPT !.pc = "loaded", !.fade = audio.fade_time]

\* The rest of the access: the store and src.set_factor(factor).
AccessSet ==
    /\ audio.pc = "loaded"
    /\ LET a == access(audio.fade, audio.fade_time) IN
       audio' = [audio EXCEPT
                    !.pc = "idle",
                    !.fade = 0,
                    !.stale = FALSE,
                    !.fade_time = a.fade_time,
                    !.factor = IF audio.stale THEN @ ELSE a.factor,
                    !.faded = IF audio.stale \/ @ = "no" THEN @
                              ELSE IF @ = "silent" \/ a.factor = 0
                              THEN "silent"
                              ELSE "fading"]

AudioNext ==
    \/ SetMusicEnabled /\ UNCHANGED <<poolVars, loopVars, calc, par>>
    \/ Halt /\ UNCHANGED <<poolVars, loopVars, calc, par>>
    \/ PlayMusic /\ UNCHANGED <<poolVars, loopVars, calc, par>>
    \/ Fade /\ UNCHANGED <<poolVars, loopVars, calc, par>>
    \/ AccessLoad /\ UNCHANGED <<poolVars, loopVars, calc, par>>
    \/ AccessSet /\ UNCHANGED <<poolVars, loopVars, calc, par>>
SpecAudio == AudioInit /\ [][AudioNext]_vars

\* C40: after fade() was called with music playing, the factor the periodic
\* access sets does not rise from one access to the next, and once it was 0
\* it stays 0, until play_music is called (or fade again, or halt).
C40_FadeStaysSilent ==
    [][(audio.faded \in {"fading", "silent"} /\
        audio'.faded \in {"fading", "silent"}) =>
          /\ audio'.factor <= audio.factor
          /\ audio.faded = "silent" => audio'.factor = 0
      ]_vars

----------------------------------------------------------------------------
(* MainLoop::run as a running program: a step of run that can be taken is   *)
(* taken (the callbacks return, the delay ends); events arrive or not.      *)
LoopRuns ==
    /\ Start \/ CallInit \/ Poll \/ HandleEvent \/ Ticks \/ Step \/ Draw \/ Quit
    /\ UNCHANGED <<poolVars, calc, audio, par>>
SpecLoopFair == LoopInit /\ [][LoopNext]_vars /\ WF_vars(LoopRuns)

\* A quit request is in the queue, behind so few events that the frames of
\* the model get to it.
QuitQueued ==
    /\ pc \in {"poll", "handle_event", "ticks", "step", "draw"}
    /\ \E i \in 1..Len(events) :
          events[i] = "Quit" /\ frameNo + i <= MaxFrames
\* run has returned Ok(()) after game.quit().
Exited == pc = "returned" /\ result = "Ok" /\ calls.quit = 1
\* C33: unless a callback fails, run exits once a quit request is in the
\* queue (a frame takes one event from it) and once a step has returned Done:
\* quit is invoked and run returns.
C33_Exits ==
    /\ QuitQueued ~> (Exited \/ failed # "none")
    /\ (HasDone /\ pc \in {"step", "draw"}) ~> (Exited \/ failed # "none")

----------------------------------------------------------------------------
(* The parallel iterators of Pool (src/src/pool.rs): par_iter, par_iter_all, *)
(* par_iter_mut, par_iter_all_mut hand in_use, or in_use chained with pool,  *)
(* to rayon, which splits the objects between workers.                      *)
(*                                                                          *)
(* par.name   the iterator that is live, "none" when there is none          *)
(* par.w      the value the caller's closure stores in each object          *)
(*            (NoWrite: it stores nothing)                                  *)
(* par.jobs   the ranges [lo, hi) of positions still to be processed, each  *)
(*            with the position `first` it began at and `started`: a worker *)
(*            has begun with it, so it is split no more                     *)
(* par.done   history: the objects processed: the position, the id and the *)
(*            range of the worker                                           *)
(* par.times  history: per position, how often its object was processed     *)

ParNames == {"par_iter", "par_iter_all", "par_iter_mut", "par_iter_all_mut"}
\* The objects iterator `name` goes over, in order.
par_items(name, free, inu) ==
    IF name \in {"par_iter_all", "par_iter_all_mut"} THEN iter_all(free, inu)
    ELSE iter(free, inu)

\* (mutant: the two halves share the object at the middle)
split_at_overlap(j, mid) ==
    {[lo |-> j.lo, hi |-> mid + 1, first |-> j.lo, started |-> FALSE],
     [lo |-> mid, hi |-> j.hi, first |-> mid, started |-> FALSE]}
\* The two halves of a range split at position mid.
split_at(j, mid) ==
    {[lo |-> j.lo, hi |-> mid, first |-> j.lo, started |-> FALSE],
     [lo |-> mid, hi |-> j.hi, first |-> mid, started |-> FALSE]}

ParIdle == par.name = "none"

\* One of the four iterators is made and driven (for_each and the like): all
\* its objects are one range.
ParStart ==
    /\ Alive
    /\ ParIdle
    /\ \E name \in ParNames, w \in {WrittenVal, NoWrite} :
          /\ name \in {"par_iter", "par_iter_all"} <=> w = NoWrite
          /\ LET n == Len(par_items(name, pool, in_use)) IN
             par' = [name |-> name, w |-> w, done |-> {},
                     times |-> [i \in 0..(n - 1) |-> 0],
                     jobs |-> IF n = 0 THEN {}
                              ELSE {[lo |-> 0, hi |-> n, first |-> 0,
                                     started |-> FALSE]}]
    /\ UNCHANGED poolVars

\* A range no worker has begun with is split in the middle.
ParSplit ==
    /\ ~ParIdle
    /\ \E j \in par.jobs :
          /\ ~j.started
          /\ j.hi - j.lo >= 2
          /\ par' = [par EXCEPT
                        !.jobs = (@ \ {j}) \cup
                                 split_at(j, j.lo + (j.hi - j.lo) \div 2)]
    /\ UNCHANGED poolVars

\* The worker of a range processes the next object of it.
ParWork ==
    /\ ~ParIdle
    /\ \E j \in par.jobs :
          LET k == j.lo
              inu == k < Len(in_use)
              item == IF inu THEN in_use[k + 1] ELSE pool[k - Len(in_use) + 1]
              rest == IF j.lo + 1 < j.hi
                      THEN {[j EXCEPT !.lo = @ + 1, !.started = TRUE]}
                      ELSE {}
          IN  /\ par' = [par EXCEPT
                            !.jobs = (@ \ {j}) \cup rest,
                            !.done = @ \cup {[idx |-> k, id |-> item.id,
                                               worker |-> <<j.first, j.hi>>]},
                            !.times[k] = @ + 1]
              /\ in_use' = IF inu
                           THEN [in_use EXCEPT ![k + 1] =
                                                  callback_write(item, par.w)]
                           ELSE in_use
              /\ pool' = IF inu THEN pool
                         ELSE [pool EXCEPT ![k - Len(in_use) + 1] =
                                              callback_write(item, par.w)]
              /\ written' = IF par.w = NoWrite THEN written
                            ELSE [written EXCEPT ![item.id] = par.w]
    /\ UNCHANGED <<panic, handle, cap, op, visited, yielded, allocOrder, since,
                   nget>>

\* All ranges are done: the iterator is over and the borrow of the pool ends.
ParJoin ==
    /\ ~ParIdle
    /\ par.jobs = {}
    /\ par' = NoPar
    /\ op' = par.name
    /\ yielded' = <<>>
    /\ visited' = <<>>
    /\ handle' = 0
    /\ since' = "other"
    /\ nget' = 0
    /\ UNCHANGED <<pool, in_use, panic, cap, allocOrder, written>>

\* A program that takes objects from a pool and iterates in parallel; while
\* an iterator is live the pool is borrowed.
ParNext ==
    \/ ParIdle /\ Get /\ UNCHANGED <<allocOrder, loopVars, calc, audio, par>>
    \/ ParStart /\ UNCHANGED <<loopVars, calc, audio>>
    \/ ParSplit /\ UNCHANGED <<loopVars, calc, audio>>
    \/ ParWork /\ UNCHANGED <<loopVars, calc, audio>>
    \/ ParJoin /\ UNCHANGED <<loopVars, calc, audio>>
SpecPar == Init /\ [][ParNext]_vars

\* The positions of range j.
Range(j) == j.lo .. (j.hi - 1)
\* The positions a worker was given.
WorkerRange(d) == d.worker[1] .. (d.worker[2] - 1)
============================================================================
